---- MODULE Spec2Model ----
(***************************************************************************)
(* Qapla chess engine: endgame bitbase generator (retrograde fixed point), *)
(* bitbase reader, bitbase storage, index mapping and iterative deepening. *)
(* Every specification below shares the variables of the module; a         *)
(* specification leaves the variables of the other components at rest.     *)
(***************************************************************************)
EXTENDS Integers, Sequences, FiniteSets, TLC

(***************************************************************************)
(* Bounds of the model                                                     *)
(***************************************************************************)
\* number of indices of the generated bitbase (state.getSizeInBit())
NumIndex == 3
\* number of worker threads (MAX_THREADS, set by "cores n")
NumThreads == 2
\* work items per package (packageSize, 50000 in the program)
PackageSize == 2

\* loop limit of the sweep loop
MaxLoops == 1024

Index == 0 .. (NumIndex - 1)
Threads == 0 .. (NumThreads - 1)

Min(a, b) == IF a < b THEN a ELSE b

VARIABLES
    \* ---- generator: the game (input) and the generation state
    pos,          \* per index: the position the index decodes to
    won,          \* GenerationState::_wonPositions
    lossOrDraw,   \* indices set by setLossOrDraw
    illegal,      \* indices set by setIllegal
    candidates,   \* GenerationState candidate flags
    phase,        \* position of the controller thread
    initWork,     \* per thread: the work of computeInitialWorkpackage still to do
    loopCount,    \* loopCount of computeBitbase(GenerationState&, ClockManager&)
    work,         \* Workpackage: the list of indices of the sweep
    nextWork,     \* Workpackage: the shared counter
    thr,          \* per thread: position in computeWorkpackage
    candidatesOf, \* _candidates[threadNo]: the thread local candidate lists
    newWins,      \* number of indices the current sweep has newly marked won
    file,         \* the stored bitbase file of the signature
    registry,     \* BitbaseReader::_bitbases entry of the signature
    evaluations,  \* per index: the calls of computePosition in the current sweep
    \* ---- recursive generation (computeBitbaseRec)
    recStack,     \* the calls of computeBitbaseRec, the running call last
    available,    \* signatures with a loaded bitbase in BitbaseReader::_bitbases
    disk,         \* signatures with a bitbase file in the working directory
    recComputed,  \* signatures computeBitbase has generated
    recReturned,  \* signatures for which a call of computeBitbaseRec has returned
    recOrder,     \* the signatures computeBitbase has generated, one entry a run
    \* ---- index mapping
    idxPc,        \* position in the round trip
    idxList,      \* the piece list of the signature
    idxPosition,  \* the position p
    idxIndex,     \* compute_index(p)
    idxDecoded,   \* index_to_position(idxIndex)
    idxTest,      \* testIndex of computeInitialWorkpackage
    \* ---- bitbase storage
    stoPc,        \* position in store / attach / getBit
    stoOriginal,  \* the bitbase that is stored: signature, _sizeInBits, bits
    stoFiles,     \* per signature: the stored file, or NoFile
    stoAttached,  \* the attached bitbase: header data, or NotAttached
    cache,        \* Bitbase::cache, the cluster cache, most recently used last
    stoRead,      \* the last getBit: index and value
    \* ---- bitbase reader
    bitbases,     \* BitbaseReader::_bitbases
    probe,        \* the last getValueFromBitbase: arguments and result
    \* ---- iterative deepening
    idPc,         \* position in searchByIterativeDeepening
    depthLimit,   \* clockSetting.getSearchDepthLimit()
    maxDepth,     \* maxDepth
    curDepth,     \* curDepth
    searched,     \* the search depths of the iterations run so far
    positionValue,\* computingInfo.positionValueInCentiPawn
    exitReason,   \* why the loop was left
    pvMovesStore, \* computingInfo.pvMovesStore: the principal variation, by ply
    lastAttempt,  \* how the last call of searchRec ended
    completedMove, \* first PV move of the last search that established one
    analyzeMode,  \* timeManager.isAnalyzeMode()
    tt,           \* the transposition table: its entries and its age
    ttSteps,      \* the maintenance steps of the table in this search
    \* ---- clock setting
    clkMode,      \* ClockSetting::_mode
    moveAmountForClock,   \* ClockSetting::_moveAmountForClock
    timeToThink,  \* ClockSetting::_timeToThinkForAllMovesInMilliseconds
    timeIncrement,\* ClockSetting::_timeIncrementPerMoveInMilliseconds
    exactTime,    \* ClockSetting::_exactTimePerMoveInMilliseconds
    clkCall,      \* the last call made on the clock setting
    searchTime,   \* the last result of calcSearchTime
    \* ---- reverse moves (computeCandidates)
    revPc,        \* position in computeCandidates
    revPosition,  \* the newly won position: piece list, squares, side to move
    revPending,   \* the pieces the loop of computeCandidates has still to visit
    revCandidates, \* the candidates pushed: piece number and destination
    \* ---- computeBitbase(PieceList&): the packages of the initial sweep
    pkgPc,        \* "off", "loop" (for (auto& thr : _threads)) or "joined"
    sizeInBit,    \* state.getSizeInBit()
    threadCount,  \* MAX_THREADS, the size of _threads
    startedThreads, \* the number of threads started so far
    beginIndex,   \* the local variable index
    ranges,       \* per started thread: the indices [index, index + package) of its work
    \* ---- searchOneIteration: the aspiration window and its retry loop
    aspPc,        \* "off", "search" (loop body), "retry" (loop condition) or "done"
    iterationDepth,  \* the depth of the iteration
    alpha,        \* aspirationWindow.alpha
    beta,         \* aspirationWindow.beta
    delta,        \* the width the window was last widened by
    retryCount,   \* the number of widenings in this iteration
    usedWindow,   \* the window the last search was started with
    aspValue,     \* computingInfo.positionValueInCentiPawn after the last search
    aspSearched,  \* the depths of the searches of this iteration
    aspPublished, \* the values printed by computingInfo.printSearchResult()
    \* ---- Eval::evaluateBoardPosition
    evalPc,       \* "off", "board" (before the call) or "done"
    terms,        \* what the board and the evaluation terms yield for the position
    evalValue,    \* the value evaluateBoardPosition returned
    timeToThinkForAllMoves,   \* _timeToThinkForAllMovesInMilliseconds, as stored
    calculationStartTime,     \* _calculationStartTime
    systemTime,    \* what getSystemTimeInMilliseconds returns
    timeBefore,    \* the remaining time read before the last storeTimeSpent
    timCall,       \* the last call
    materialValue,   \* MaterialBalance::_materialValue: midgame and endgame value
    matTrace         \* the calls made so far, each with the value it has left

genVars == <<pos, won, lossOrDraw, illegal, candidates, phase, initWork,
             loopCount, work, nextWork, thr, candidatesOf, newWins, file, registry,
             evaluations>>

recVars == <<recStack, available, disk, recComputed, recReturned, recOrder>>
idxVars == <<idxPc, idxList, idxPosition, idxIndex, idxDecoded, idxTest>>
stoVars == <<stoPc, stoOriginal, stoFiles, stoAttached, cache, stoRead>>
rdrVars == <<bitbases, probe>>
idVars == <<idPc, depthLimit, maxDepth, curDepth, searched, positionValue, exitReason,
            pvMovesStore, lastAttempt, completedMove, analyzeMode, tt, ttSteps>>

clkVars == <<clkMode, moveAmountForClock, timeToThink, timeIncrement, exactTime, clkCall, searchTime>>

revVars == <<revPc, revPosition, revPending, revCandidates>>

pkgVars == <<pkgPc, sizeInBit, threadCount, startedThreads, beginIndex, ranges>>

aspVars == <<aspPc, iterationDepth, alpha, beta, delta, retryCount, usedWindow, aspValue,
            aspSearched, aspPublished>>

evalVars == <<evalPc, terms, evalValue>>

timVars == <<timeToThinkForAllMoves, calculationStartTime, systemTime, timeBefore, timCall>>

matVars == <<materialValue, matTrace>>

vars == <<genVars, recVars, idxVars, stoVars, rdrVars, idVars, clkVars, revVars, pkgVars, aspVars, evalVars, timVars, matVars>>

\* the variables a component leaves alone
notGen == <<recVars, idxVars, stoVars, rdrVars, idVars, clkVars, revVars, pkgVars, aspVars, evalVars, timVars, matVars>>
notRec == <<genVars, idxVars, stoVars, rdrVars, idVars, clkVars, revVars, pkgVars, aspVars, evalVars, timVars, matVars>>
notIdx == <<genVars, recVars, stoVars, rdrVars, idVars, clkVars, revVars, pkgVars, aspVars, evalVars, timVars, matVars>>
notSto == <<genVars, recVars, idxVars, rdrVars, idVars, clkVars, revVars, pkgVars, aspVars, evalVars, timVars, matVars>>
notRdr == <<genVars, recVars, idxVars, stoVars, idVars, clkVars, revVars, pkgVars, aspVars, evalVars, timVars, matVars>>
notClk == <<genVars, recVars, idxVars, stoVars, rdrVars, idVars, revVars, pkgVars, aspVars, evalVars, timVars, matVars>>
notId == <<genVars, recVars, idxVars, stoVars, rdrVars, clkVars, revVars, pkgVars, aspVars, evalVars, timVars, matVars>>
notPkg == <<genVars, recVars, idxVars, stoVars, rdrVars, idVars, clkVars, revVars, aspVars, evalVars, timVars, matVars>>
notRev == <<genVars, recVars, idxVars, stoVars, rdrVars, idVars, clkVars, pkgVars, aspVars, evalVars, timVars, matVars>>
notEval == <<genVars, recVars, idxVars, stoVars, rdrVars, idVars, clkVars, revVars, pkgVars, aspVars, timVars, matVars>>
notAsp == <<genVars, recVars, idxVars, stoVars, rdrVars, idVars, clkVars, revVars, pkgVars, evalVars, timVars, matVars>>
notMat == <<genVars, recVars, idxVars, stoVars, rdrVars, idVars, clkVars, revVars, pkgVars, aspVars, evalVars, timVars>>
notTim == <<genVars, recVars, idxVars, stoVars, rdrVars, idVars, clkVars, revVars, pkgVars, aspVars, evalVars, matVars>>

\* the components at rest
RecIdle ==
    /\ recStack = <<>> /\ available = {} /\ disk = {}
    /\ recComputed = {} /\ recReturned = {} /\ recOrder = <<>>

IdxIdle ==
    /\ idxPc = "off" /\ idxList = <<>> /\ idxPosition = <<>>
    /\ idxIndex = 0 /\ idxDecoded = <<>> /\ idxTest = 0

StoIdle ==
    /\ stoPc = "off" /\ stoOriginal = <<>> /\ stoFiles = <<>>
    /\ stoAttached = <<>> /\ cache = <<>> /\ stoRead = <<>>

RdrIdle == bitbases = <<>> /\ probe = <<>>

IdIdle ==
    /\ idPc = "off" /\ depthLimit = 0 /\ maxDepth = 0 /\ curDepth = 0
    /\ searched = <<>> /\ positionValue = 0 /\ exitReason = "none"
    /\ pvMovesStore = <<>> /\ lastAttempt = "none" /\ completedMove = "empty"
    /\ analyzeMode = FALSE /\ tt = <<>> /\ ttSteps = <<>>

ClkIdle ==
    /\ clkMode = "off" /\ moveAmountForClock = 0 /\ timeToThink = 0
    /\ timeIncrement = 0 /\ exactTime = 0 /\ clkCall = <<>> /\ searchTime = 0

RevIdle ==
    /\ revPc = "off" /\ revPosition = <<>> /\ revPending = <<>> /\ revCandidates = {}

PkgIdle ==
    /\ pkgPc = "off" /\ sizeInBit = 0 /\ threadCount = 0 /\ startedThreads = 0
    /\ beginIndex = 0 /\ ranges = <<>>

AspIdle ==
    /\ aspPc = "off" /\ iterationDepth = 0 /\ alpha = 0 /\ beta = 0 /\ delta = 0
    /\ retryCount = 0 /\ usedWindow = <<>> /\ aspValue = 0 /\ aspSearched = <<>>
    /\ aspPublished = <<>>

EvalIdle ==
    /\ evalPc = "off" /\ terms = <<>> /\ evalValue = 0

TimIdle ==
    /\ timeToThinkForAllMoves = 0 /\ calculationStartTime = 0 /\ systemTime = 0
    /\ timeBefore = 0 /\ timCall = "off"

MatIdle ==
    /\ materialValue = <<>> /\ matTrace = <<>>

(***************************************************************************)
(* The game: what MoveGenerator, BitbaseIndex and BitbaseReader report for *)
(* the position of an index.  White is the stronger (first listed) side;   *)
(* the side to move is folded into the index.                              *)
(***************************************************************************)
isWhiteToMove(index) == index % 2 = 0

\* indices with the other side to move
Opposite(index) == {j \in Index : isWhiteToMove(j) # isWhiteToMove(index)}

\* what the available bitbases say about the position after a capture or
\* promotion, seen from white: white wins, draw, black wins
CaptureResults == {"win", "draw", "loss"}

\* getValueFromSingleBitbase(position) == Result::Win
isWhiteWin(result) == result = "win"

CaptureSamples == {{}, {"win"}, {"draw"}, {"loss"}, {"win", "draw"}}

\* kind: "illegalIndex"  BitbaseIndex::isLegal() is false
\*       "illegalPos"    MoveGenerator::isLegalPosition() is false
\*       "nomoves"       legal, genMovesOfMovingColor finds no move
\*       "moves"         legal, at least one move
\* caps:  the results of the captures and promotions of the position
\* quiet: the indices BoardAccess::getIndex gives for the non capturing moves
\* The positions with captures are sampled: they have no non capturing move
\* or one to every index of the other side, and their captures have one
\* result, or two of which one is a win of white.
PositionsOf(index) ==
    [kind : {"illegalIndex", "illegalPos"}, inCheck : {FALSE}, caps : {{}}, quiet : {{}}]
    \cup [kind : {"nomoves"}, inCheck : BOOLEAN, caps : {{}}, quiet : {{}}]
    \cup {p \in [kind : {"moves"}, inCheck : {FALSE}, caps : CaptureSamples,
                 quiet : SUBSET Opposite(index)] :
            /\ p.caps # {} \/ p.quiet # {}
            /\ p.caps = {} \/ p.quiet \in {{}, Opposite(index)}}

RECURSIVE Games(_)
Games(n) ==
    IF n = 0 THEN {<<>>}
    ELSE {Append(g, p) : g \in Games(n - 1), p \in PositionsOf(n - 1)}

isLegalIndex(g, index) == g[index + 1].kind # "illegalIndex"
isLegalPosition(g, index) == g[index + 1].kind \notin {"illegalIndex", "illegalPos"}

\* a legal move leads to a legal position
GameOK(g) ==
    \A i \in Index : \A j \in g[i + 1].quiet : isLegalPosition(g, j)


(***************************************************************************)
(* GenerationState                                                         *)
(***************************************************************************)
computedPositions == won \cup lossOrDraw \cup illegal

\* the indices of [begin, begin + count) not yet computed, only the candidates
\* among them if onlyCandidates
RECURSIVE getWorkFrom(_, _, _, _)
getWorkFrom(index, end, onlyCandidates, computed) ==
    IF index >= end THEN <<>>
    ELSE (IF index \notin computed /\ (~onlyCandidates \/ index \in candidates)
          THEN <<index>> ELSE <<>>)
         \o getWorkFrom(index + 1, end, onlyCandidates, computed)

getWork(begin, count, onlyCandidates) ==
    getWorkFrom(begin, begin + count, onlyCandidates, computedPositions)

(***************************************************************************)
(* BitbaseGenerator: the position values                                   *)
(***************************************************************************)
\* faulty variant of initialSearch: a capture that wins for the side to move
\* gives 1 for either side
initialSearchForMover(index) ==
    IF isWhiteToMove(index) /\ "win" \in pos[index + 1].caps THEN 1
    ELSE IF ~isWhiteToMove(index) /\ "loss" \in pos[index + 1].caps THEN 1
    ELSE IF ~isWhiteToMove(index) /\ "draw" \in pos[index + 1].caps THEN -1
    ELSE 0

\* faulty variant of initialSearch: black needs every capture not to lose
initialSearchEveryCapture(index) ==
    IF isWhiteToMove(index) /\ \E r \in pos[index + 1].caps : isWhiteWin(r) THEN 1
    ELSE IF /\ ~isWhiteToMove(index)
            /\ pos[index + 1].caps # {}
            /\ \A r \in pos[index + 1].caps : ~isWhiteWin(r) THEN -1
    ELSE 0

\* 1: a capture wins for white, -1: black has a capture that does not lose
initialSearch(index) ==
    IF isWhiteToMove(index) /\ \E r \in pos[index + 1].caps : isWhiteWin(r) THEN 1
    ELSE IF ~isWhiteToMove(index) /\ \E r \in pos[index + 1].caps : ~isWhiteWin(r) THEN -1
    ELSE 0

\* faulty variant of computeValue: one won successor is enough for either side
computeValueAnyMove(index, bitbase) ==
    \E successor \in pos[index + 1].quiet : successor \in bitbase

\* faulty variant of computeValue: every move has to reach a won index for
\* either side
computeValueEveryMove(index, bitbase) ==
    \A successor \in pos[index + 1].quiet : successor \in bitbase

\* probes the non capturing moves in the bitbase under construction
computeValue(index, bitbase) ==
    IF isWhiteToMove(index)
    THEN \E successor \in pos[index + 1].quiet : successor \in bitbase
    ELSE \A successor \in pos[index + 1].quiet : successor \in bitbase

\* faulty variant of initialComputePosition: the mate of either side is a win
initialComputePositionAnyMate(index) ==
    IF ~isLegalPosition(pos, index) THEN "illegal"
    ELSE IF pos[index + 1].kind = "moves"
         THEN (IF initialSearch(index) = 1 THEN "win"
               ELSE IF initialSearch(index) = -1 THEN "lossOrDraw"
               ELSE "open")
         ELSE (IF pos[index + 1].inCheck THEN "win" ELSE "lossOrDraw")

\* "win", "lossOrDraw", "illegal" or "open": what the initial sweep sets
initialComputePosition(index) ==
    IF ~isLegalPosition(pos, index) THEN "illegal"
    ELSE IF pos[index + 1].kind = "moves"
         THEN (IF initialSearch(index) = 1 THEN "win"
               ELSE IF initialSearch(index) = -1 THEN "lossOrDraw"
               ELSE "open")
         ELSE (IF ~isWhiteToMove(index) /\ pos[index + 1].inCheck THEN "win"
               ELSE "lossOrDraw")

\* what the reverse moves can yield besides the predecessors: positions with
\* the other side to move from which no legal non capturing move leads here
ExtraCandidates(index) == {{}, Opposite(index)}

\* the reverse moves of the side that just moved: every predecessor by a
\* non capturing move, and the indices extra that are no predecessor
computeCandidates(index, extra) ==
    {x \in Index : index \in pos[x + 1].quiet} \cup extra

\* faulty variant of package: the share of a thread is rounded down
packageRoundedDown(size, maxThreads, index) ==
    Min(size \div maxThreads, size - index)

\* min((state.getSizeInBit() + MAX_THREADS) / MAX_THREADS, state.getSizeInBit() - index)
package(size, maxThreads, index) ==
    Min((size + maxThreads) \div maxThreads, size - index)

\* the size of the package of the initial sweep that starts at index
initialPackage(index) == package(NumIndex, NumThreads, index)

RECURSIVE initialBegin(_)
initialBegin(threadNo) ==
    IF threadNo = 0 THEN 0
    ELSE initialBegin(threadNo - 1) + initialPackage(initialBegin(threadNo - 1))

(***************************************************************************)
(* BitbaseGenerator::computeBitbase(PieceList&): the initial sweep         *)
(***************************************************************************)
GenIdle ==
    /\ won = {} /\ lossOrDraw = {} /\ illegal = {} /\ candidates = {}
    /\ initWork = [t \in Threads |-> <<>>]
    /\ loopCount = 0 /\ work = <<>> /\ nextWork = 0
    /\ thr = [t \in Threads |-> [pc |-> "idle", workNo |-> 0, last |-> 0]]
    /\ candidatesOf = [t \in Threads |-> {}]
    /\ newWins = 0
    /\ file = [exists |-> FALSE, bits |-> {}]
    /\ registry = [loaded |-> FALSE, bits |-> {}]
    /\ evaluations = [i \in Index |-> 0]

InitGen ==
    /\ pos \in {g \in Games(NumIndex) : GameOK(g)}
    /\ phase = "start"
    /\ GenIdle
    /\ RecIdle /\ IdxIdle /\ StoIdle /\ RdrIdle /\ IdIdle /\ ClkIdle /\ RevIdle /\ PkgIdle /\ AspIdle /\ EvalIdle /\ TimIdle /\ MatIdle

\* the generator at rest
GenOff == pos = <<>> /\ phase = "off" /\ GenIdle

\* the threads of the initial sweep are created, each with its work
StartInitialSweep ==
    /\ UNCHANGED notGen
    /\ phase = "start"
    /\ phase' = "initial"
    /\ initWork' = [t \in Threads |->
                      getWork(initialBegin(t), initialPackage(initialBegin(t)), FALSE)]
    /\ UNCHANGED <<pos, evaluations, won, lossOrDraw, illegal, candidates, loopCount, work,
                   nextWork, thr, candidatesOf, newWins, file, registry>>

\* what computeInitialWorkpackage sets for one index of its work
initialValue(index) ==
    IF isLegalIndex(pos, index) THEN initialComputePosition(index) ELSE "illegal"

Range(seq) == {seq[k] : k \in 1 .. Len(seq)}

\* computeInitialWorkpackage: thread t classifies every index of its work
\* (the indices of different threads are different, the order does not matter)
InitialStep(t) ==
    /\ UNCHANGED notGen
    /\ phase = "initial"
    /\ initWork[t] # <<>>
    /\ won' = won \cup {i \in Range(initWork[t]) : initialValue(i) = "win"}
    /\ lossOrDraw' = lossOrDraw
                     \cup {i \in Range(initWork[t]) : initialValue(i) = "lossOrDraw"}
    /\ illegal' = illegal \cup {i \in Range(initWork[t]) : initialValue(i) = "illegal"}
    /\ initWork' = [initWork EXCEPT ![t] = <<>>]
    /\ UNCHANGED <<pos, evaluations, candidates, phase, loopCount, work, nextWork, thr,
                   candidatesOf, newWins, file, registry>>

\* joinThreads() of the initial sweep, then computeBitbase(state, clock)
JoinInitialSweep ==
    /\ UNCHANGED notGen
    /\ phase = "initial"
    /\ \A t \in Threads : initWork[t] = <<>>
    /\ phase' = "loop"
    /\ UNCHANGED <<pos, evaluations, won, lossOrDraw, illegal, candidates, initWork, loopCount,
                   work, nextWork, thr, candidatesOf, newWins, file, registry>>

(***************************************************************************)
(* BitbaseGenerator::computeBitbase(GenerationState&, ClockManager&)       *)
(***************************************************************************)
\* faulty variant of sweepWork: every index is work, whatever the state says
sweepWorkEveryIndex == [k \in 1 .. NumIndex |-> k - 1]

\* Workpackage workpackage(state.getWork(0, state.getSizeInBit(), loopCount > 0))
sweepWork == getWork(0, NumIndex, loopCount > 0)

\* head of the loop body: the candidate lists are cleared, the work package is
\* built and the threads are started
StartSweep ==
    /\ UNCHANGED notGen
    /\ phase = "loop"
    /\ candidatesOf' = [t \in Threads |-> {}]
    /\ work' = sweepWork
    /\ nextWork' = 0
    /\ thr' = [t \in Threads |-> [pc |-> "fetch", workNo |-> 0, last |-> 0]]
    /\ newWins' = 0
    /\ evaluations' = [i \in Index |-> 0]
    /\ phase' = "sweep"
    /\ UNCHANGED <<pos, won, lossOrDraw, illegal, candidates, initWork, loopCount,
                   file, registry>>

\* Workpackage::getNextPackageToExamine(packageSize)
NextPackage(t) ==
    /\ UNCHANGED notGen
    /\ phase = "sweep"
    /\ thr[t].pc = "fetch"
    /\ LET first == Min(nextWork, Len(work))
           second == Min(nextWork + PackageSize, Len(work))
       IN thr' = [thr EXCEPT ![t] =
                    IF first < second
                    THEN [pc |-> "work", workNo |-> first, last |-> second]
                    ELSE [pc |-> "done", workNo |-> 0, last |-> 0]]
    /\ nextWork' = nextWork + PackageSize
    /\ UNCHANGED <<pos, evaluations, won, lossOrDraw, illegal, candidates, phase, initWork,
                   loopCount, work, candidatesOf, newWins, file, registry>>

\* computePosition: 1 if the position is a win now
computePosition(index) == IF computeValue(index, won) THEN 1 ELSE 0

\* faulty variant of computePositionWon: the bit is assigned, the other bits are lost
computePositionWonAssign(index) ==
    IF computeValue(index, won) THEN {index} ELSE won

\* computePosition: the won positions after state.setWin(index)
computePositionWon(index) ==
    IF computeValue(index, won) THEN won \cup {index} ELSE won

\* faulty variant of missingCandidateFlag: the first loop is checked too
missingCandidateFlagAlways(firstLoop, success, index) ==
    success /\ index \notin candidates

\* computeWorkpackage: the consistency check that ends the process
missingCandidateFlag(firstLoop, success, index) ==
    ~firstLoop /\ success /\ index \notin candidates

\* faulty variant of nextWorkNo: the loop stays on the same work item
nextWorkNoSame(workNo) == workNo

\* for (workNo = package.first; workNo < package.second; ++workNo)
nextWorkNo(workNo) == workNo + 1

\* computeWorkpackage: one work item of the package of thread t
ExaminePosition(t) ==
    /\ UNCHANGED notGen
    /\ phase = "sweep"
    /\ thr[t].pc = "work"
    /\ \E extra \in ExtraCandidates(work[thr[t].workNo + 1]) :
       LET index == work[thr[t].workNo + 1]
           legal == isLegalIndex(pos, index)
           success == legal /\ computePosition(index) = 1
           firstLoop == loopCount = 0
       IN /\ won' = IF legal THEN computePositionWon(index) ELSE won
          /\ newWins' = IF success /\ index \notin won THEN newWins + 1 ELSE newWins
          /\ evaluations' = [evaluations EXCEPT ![index] = @ + 1]
          /\ IF missingCandidateFlag(firstLoop, success, index)
             THEN \* exit(1)
                  /\ phase' = "exit"
                  /\ UNCHANGED <<thr, candidatesOf>>
             ELSE /\ phase' = phase
                  /\ candidatesOf' = IF success
                                     THEN [candidatesOf EXCEPT
                                             ![t] = @ \cup computeCandidates(index, extra)]
                                     ELSE candidatesOf
                  /\ thr' = [thr EXCEPT ![t] =
                               IF nextWorkNo(thr[t].workNo) < thr[t].last
                               THEN [@ EXCEPT !.workNo = nextWorkNo(@)]
                               ELSE [pc |-> "fetch", workNo |-> 0, last |-> 0]]
    /\ UNCHANGED <<pos, lossOrDraw, illegal, candidates, initWork, loopCount,
                   work, nextWork, file, registry>>

\* candidateCount: the sum of the sizes of the candidate lists
RECURSIVE candidateSum(_)
candidateSum(n) ==
    IF n = 0 THEN 0 ELSE candidateSum(n - 1) + Cardinality(candidatesOf[n - 1])

candidateCount == candidateSum(NumThreads)

\* faulty variant of sweepLoopEnds: the loop goes on while a sweep has found a win
sweepLoopEndsWithoutWin == newWins = 0

\* faulty variant of sweepLoopEnds: the loop is left after its first sweep
sweepLoopEndsAtOnce == TRUE

\* the break of the sweep loop
sweepLoopEnds == candidateCount = 0

\* faulty variant of mergedCandidates: only the list of the first thread is merged
mergedCandidatesOfFirstThread == candidatesOf[0]

\* faulty variant of mergedCandidates: the flags of the last sweep are not cleared
mergedCandidatesNotCleared == candidates \cup UNION {candidatesOf[t] : t \in Threads}

\* state.clearAllCandidates(), then state.setCandidates(candidate) for the
\* list of every thread
mergedCandidates == UNION {candidatesOf[t] : t \in Threads}

\* joinThreads(), the merge of the candidate lists and the loop condition
JoinSweep ==
    /\ UNCHANGED notGen
    /\ phase = "sweep"
    /\ \A t \in Threads : thr[t].pc = "done"
    /\ candidates' = mergedCandidates
    /\ thr' = [t \in Threads |-> [pc |-> "idle", workNo |-> 0, last |-> 0]]
    /\ IF sweepLoopEnds
       THEN /\ phase' = "store"
            /\ UNCHANGED loopCount
       ELSE /\ loopCount' = loopCount + 1
            /\ phase' = IF loopCount + 1 < MaxLoops THEN "loop" ELSE "store"
    /\ UNCHANGED <<pos, evaluations, won, lossOrDraw, illegal, initWork, work, nextWork,
                   candidatesOf, newWins, file, registry>>

\* state.storeToFile(fileName); BitbaseReader::setBitbase(pieceString, won)
StoreBitbase ==
    /\ UNCHANGED notGen
    /\ phase = "store"
    /\ file' = [exists |-> TRUE, bits |-> won]
    /\ registry' = [loaded |-> TRUE, bits |-> won]
    /\ phase' = "done"
    /\ UNCHANGED <<pos, evaluations, won, lossOrDraw, illegal, candidates, initWork, loopCount,
                   work, nextWork, thr, candidatesOf, newWins>>

NextGen ==
    \/ StartInitialSweep
    \/ \E t \in Threads : InitialStep(t)
    \/ JoinInitialSweep
    \/ StartSweep
    \/ \E t \in Threads : NextPackage(t)
    \/ \E t \in Threads : ExaminePosition(t)
    \/ JoinSweep
    \/ StoreBitbase

SpecGen == InitGen /\ [][NextGen]_vars


(***************************************************************************)
(* Properties of the generator                                             *)
(***************************************************************************)
\* the positions white wins within k more rounds of the backward induction
\* over all moves, the captures and promotions valued by the bitbases of the
\* sub signatures
RECURSIVE MateWithin(_)
MateWithin(k) ==
    IF k = 0 THEN {}
    ELSE LET W == MateWithin(k - 1)
         IN {i \in Index :
               /\ isLegalPosition(pos, i)
               /\ IF pos[i + 1].kind = "nomoves"
                  THEN ~isWhiteToMove(i) /\ pos[i + 1].inCheck
                  ELSE IF isWhiteToMove(i)
                       THEN "win" \in pos[i + 1].caps
                            \/ \E j \in pos[i + 1].quiet : j \in W
                       ELSE pos[i + 1].caps \subseteq {"win"}
                            /\ \A j \in pos[i + 1].quiet : j \in W}

ForcedMate == MateWithin(NumIndex + 1)

loopHasEnded == phase \in {"store", "done"}

\* C1: after the sweep loop has ended, an index is marked won if and only if
\* white has a forced sequence that mates black from its position.
C1_FixedPoint == loopHasEnded => won = ForcedMate

\* a run with several sweeps that ends with won and not won legal positions
C1_Witness ==
    /\ phase = "done"
    /\ loopCount >= 1
    /\ newWins >= 1
    /\ \E i \in won : pos[i + 1].kind = "moves" /\ pos[i + 1].caps = {}
    /\ \E i \in Index \ won : isLegalPosition(pos, i)

\* C2: no step of the initial sweep or of a sweep clears a won bit.
C2_Monotonic == [][won \subseteq won']_vars

\* a later sweep at work on a bitbase that holds won positions
C2_Witness ==
    /\ phase = "sweep"
    /\ loopCount >= 1
    /\ won # {}
    /\ newWins >= 1

\* C3 as stated: the loop ends exactly after the first sweep that marks no
\* new index.
C3_EndsAfterSweepWithoutWin ==
    /\ loopHasEnded => newWins = 0
    /\ (phase = "loop" /\ loopCount > 0) => newWins > 0

\* C3 amended: the loop ends exactly after the first sweep that yields no
\* candidate (or after MaxLoops sweeps); a sweep without a new win yields
\* none; every sweep that is followed by another one has marked a new index,
\* so there are at most NumIndex + 1 sweeps, and no step before the end blocks.
C3_EndsAfterSweepWithoutCandidate ==
    /\ loopHasEnded => (candidateCount = 0 \/ loopCount = MaxLoops)
    /\ (phase = "loop" /\ loopCount > 0) => (candidateCount > 0 /\ newWins > 0)
    /\ (phase = "sweep" /\ newWins = 0) => candidateCount = 0
    /\ loopCount <= Cardinality(won)
    /\ loopCount <= NumIndex
    /\ phase \notin {"done", "exit"} => ENABLED NextGen

\* the loop has ended after a sweep that marked a new index
C3_Witness ==
    /\ loopHasEnded
    /\ newWins > 0
    /\ candidateCount = 0

\* no index that is still open would be marked by one more sweep over all
\* indices
NothingLeftToMark ==
    \A i \in Index \ computedPositions : isLegalIndex(pos, i) => ~computeValue(i, won)

\* C4 as stated: the bitbase is written and registered only after a sweep in
\* which no index was newly marked won.
C4_StoredAfterSweepWithoutWin ==
    (file.exists \/ registry.loaded) => newWins = 0

\* C4 amended: the bitbase is written and registered only after the loop has
\* ended, that is after a sweep that yielded no candidate (or after MaxLoops
\* sweeps); what is stored is the won set and, if the loop ended by its
\* break, one more sweep would not change it.
C4_StoredAfterLoop ==
    (file.exists \/ registry.loaded) =>
        /\ phase = "done"
        /\ candidateCount = 0 \/ loopCount = MaxLoops
        /\ file.exists /\ registry.loaded
        /\ file.bits = won /\ registry.bits = won
        /\ candidateCount = 0 => NothingLeftToMark

\* a stored bitbase with positions won in a sweep after the first
C4_Witness ==
    /\ file.exists
    /\ registry.loaded
    /\ loopCount >= 1
    /\ file.bits # {}

\* C5 as stated: whenever a sweep finds an index newly won that is not a
\* candidate, the process ends (here: every index won by a sweep is a
\* candidate or the process has ended).
C5_AbortWhenNotCandidate ==
    (phase = "sweep" /\ newWins > 0) =>
        \A i \in Range(work) : i \in won => i \in candidates

\* C5 amended: the check is not made in the first sweep, where no candidate
\* is flagged and every newly won index is kept; a later sweep examines
\* flagged indices only, so the process never ends by the check and the
\* bitbase is stored.
C5_AbortOnlyAfterFirstSweep ==
    /\ phase # "exit"
    /\ (phase = "sweep" /\ loopCount > 0) => Range(work) \subseteq candidates
    /\ (phase = "sweep" /\ loopCount = 0) => candidates = {}

\* the first sweep has marked an index that is no candidate and goes on
C5_Witness ==
    /\ phase = "sweep"
    /\ loopCount = 0
    /\ \E i \in Range(work) : i \in won /\ i \notin candidates
    /\ \E t \in Threads : thr[t].pc = "work"

\* the index thread t examines in its next step of computeWorkpackage
examinedIndex(t) == work[thr[t].workNo + 1]

\* the step is the examination of a position by thread t
Examines(t) == phase = "sweep" /\ thr[t].pc = "work" /\ thr'[t] # thr[t]

\* C15: a sweep marks a position with white (the stronger side) to move won
\* iff one of its non capturing moves reaches an index already marked won,
\* and a position with black to move iff every one of its non capturing
\* moves does.
C15_MinMaxRule ==
    [][\A t \in Threads :
         Examines(t) =>
            LET index == examinedIndex(t)
                successors == pos[index + 1].quiet
            IN /\ index \notin won
               /\ isWhiteToMove(index) =>
                    (index \in won' <=> \E j \in successors : j \in won)
               /\ ~isWhiteToMove(index) =>
                    (index \in won' <=> \A j \in successors : j \in won)]_vars

\* sweeps have marked a position with black to move, all of whose moves reach
\* won positions, and a position with white to move that has no capture
C15_Witness ==
    /\ phase = "sweep"
    /\ loopCount >= 1
    /\ \E i \in won :
         /\ ~isWhiteToMove(i)
         /\ pos[i + 1].kind = "moves"
         /\ pos[i + 1].quiet # {}
    /\ \E i \in won :
         /\ isWhiteToMove(i)
         /\ pos[i + 1].kind = "moves"
         /\ pos[i + 1].caps = {}

\* the initial sweep has classified the index
initiallyComputed(i) ==
    /\ phase \notin {"off", "start"}
    /\ \A t \in Threads : i \notin Range(initWork[t])

\* the legal positions without a legal move
NoMovePositions == {i \in Index : isLegalPosition(pos, i) /\ pos[i + 1].kind = "nomoves"}

\* C16: the initial sweep marks a position without legal moves won iff the
\* side to move is in check and is black (the weaker side); a stalemate and a
\* mate of white are marked not_won; no sweep changes these marks.
C16_MateAndStalemate ==
    \A i \in NoMovePositions :
        /\ i \in won => initiallyComputed(i)
        /\ i \in lossOrDraw => initiallyComputed(i)
        /\ initiallyComputed(i) =>
             /\ i \in won <=> (~isWhiteToMove(i) /\ pos[i + 1].inCheck)
             /\ i \in lossOrDraw <=> (isWhiteToMove(i) \/ ~pos[i + 1].inCheck)
             /\ i \notin illegal

\* the initial sweep has seen a mate of black, and a mate of white or a
\* stalemate of black
C16_Witness ==
    /\ phase = "loop"
    /\ loopCount = 0
    /\ \E i \in NoMovePositions : ~isWhiteToMove(i) /\ pos[i + 1].inCheck /\ i \in won
    /\ \E i \in NoMovePositions : isWhiteToMove(i) /\ pos[i + 1].inCheck /\ i \in lossOrDraw
    /\ \E i \in NoMovePositions : ~pos[i + 1].inCheck /\ i \in lossOrDraw

\* the legal positions with a legal move
MovePositions == {i \in Index : isLegalPosition(pos, i) /\ pos[i + 1].kind = "moves"}

\* no sweep has begun
beforeSweeps == phase = "initial" \/ (phase = "loop" /\ loopCount = 0)

\* the result of a capture is a win of the side that made it
winsForMover(i, result) == result = (IF isWhiteToMove(i) THEN "win" ELSE "loss")

\* C17 as stated: a position with legal moves is marked won in the initial
\* sweep when one of the captures or promotions of the side to move leads to
\* a position that is a win of that side.
C17_WonByCaptureOfMover ==
    \A i \in MovePositions :
        (initiallyComputed(i) /\ \E r \in pos[i + 1].caps : winsForMover(i, r))
            => i \in won

\* C17 amended: a position with legal moves and white (the stronger side) to
\* move is marked won in the initial sweep iff one of its captures or
\* promotions leads to a position that is a win of white; a position with
\* legal moves and black to move is not marked won in the initial sweep, and
\* is marked not_won if one of its captures is a win of black.
C17_WonByCaptureOfWhite ==
    \A i \in MovePositions :
        /\ (initiallyComputed(i) /\ isWhiteToMove(i) /\ "win" \in pos[i + 1].caps)
             => i \in won
        /\ (initiallyComputed(i) /\ ~isWhiteToMove(i) /\ "loss" \in pos[i + 1].caps)
             => (i \in lossOrDraw /\ i \notin won)
        /\ (beforeSweeps /\ i \in won)
             => (initiallyComputed(i) /\ isWhiteToMove(i) /\ "win" \in pos[i + 1].caps)

\* the initial sweep has marked a position of white won for a capture, and
\* has not marked won a position of black with a capture that wins for black
C17_Witness ==
    /\ phase = "loop"
    /\ loopCount = 0
    /\ \E i \in MovePositions :
         isWhiteToMove(i) /\ pos[i + 1].caps = {"win", "draw"} /\ i \in won
    /\ \E i \in MovePositions :
         ~isWhiteToMove(i) /\ pos[i + 1].caps = {"loss"} /\ i \in lossOrDraw

\* the result of a capture is a loss or a draw of the side that made it
lossOrDrawForMover(i, result) == result # (IF isWhiteToMove(i) THEN "win" ELSE "loss")

\* C18 as stated: a position with legal moves is marked not_won in the
\* initial sweep only if it has no non capturing move and every one of its
\* captures leads to a loss or draw of the side to move.
C18_NotWonOnlyWithoutEscape ==
    \A i \in MovePositions :
        i \in lossOrDraw =>
            /\ pos[i + 1].quiet = {}
            /\ \A r \in pos[i + 1].caps : lossOrDrawForMover(i, r)

\* C18 amended: a position with legal moves is marked not_won in the initial
\* sweep iff black (the weaker side) is to move and one of its captures or
\* promotions leads to a position that is not a win of white, whether or not
\* it has non capturing moves or other captures; no sweep marks not_won.
C18_NotWonByCaptureOfBlack ==
    \A i \in MovePositions :
        /\ i \in lossOrDraw => initiallyComputed(i)
        /\ initiallyComputed(i) =>
             (i \in lossOrDraw <=>
                (~isWhiteToMove(i) /\ \E r \in pos[i + 1].caps : r # "win"))
        /\ i \in lossOrDraw => i \notin won

\* sweeps are at work, and the initial sweep has marked not_won a position of
\* black that has non capturing moves and a capture that wins for white
C18_Witness ==
    /\ phase = "sweep"
    /\ \E i \in MovePositions :
         /\ ~isWhiteToMove(i)
         /\ pos[i + 1].caps = {"win", "draw"}
         /\ pos[i + 1].quiet # {}
         /\ i \in lossOrDraw

workIsOpenPart(part) ==
    /\ Range(work) \subseteq part
    /\ part \ Range(work) \subseteq computedPositions
    /\ Range(work) \cap (lossOrDraw \cup illegal) = {}

ownedItems(t) == IF thr[t].pc = "work" THEN thr[t].workNo .. (thr[t].last - 1) ELSE {}

\* the work items no package has taken yet
itemsNotHandedOut == {k \in 0 .. (Len(work) - 1) : k >= nextWork}

\* C22: in a sweep no index is evaluated twice, only indices of the work set are
\* evaluated, the packages of two threads never overlap, every item of the work
\* set is either evaluated, or owned by exactly one thread, or not handed out yet,
\* and when every thread is done each index of the work set was evaluated exactly once
C22_EachIndexEvaluatedOnce ==
    phase = "sweep" =>
        /\ \A i \in Index : evaluations[i] <= 1
        /\ \A i \in Index : evaluations[i] > 0 => i \in Range(work)
        /\ \A k, l \in 1 .. Len(work) : work[k] = work[l] => k = l
        /\ \A t, u \in Threads : t # u => ownedItems(t) \cap ownedItems(u) = {}
        /\ \A k \in 0 .. (Len(work) - 1) :
              LET owners == {t \in Threads : k \in ownedItems(t)}
              IN IF evaluations[work[k + 1]] = 1
                 THEN owners = {} /\ k \notin itemsNotHandedOut
                 ELSE IF k \in itemsNotHandedOut
                      THEN owners = {}
                      ELSE Cardinality(owners) = 1
        /\ (\A t \in Threads : thr[t].pc = "done") =>
              \A i \in Range(work) : evaluations[i] = 1

\* two threads hold packages at the same time, one of them is past the first item
\* of its package, and a part of the work set is evaluated already
C22_Witness ==
    /\ phase = "sweep"
    /\ \A t \in Threads : thr[t].pc = "work"
    /\ \E t \in Threads : thr[t].workNo % PackageSize # 0
    /\ \E i \in Range(work) : evaluations[i] = 1

RECURSIVE sweepsOfOneThread(_, _)
sweepsOfOneThread(bitbase, sweeps) ==
    IF sweeps = 0 THEN bitbase
    ELSE sweepsOfOneThread(
             bitbase \cup {index \in Index :
                             /\ initialComputePosition(index) = "open"
                             /\ isLegalIndex(pos, index)
                             /\ computeValue(index, bitbase)},
             sweeps - 1)

resultOfOneThread ==
    sweepsOfOneThread({index \in Index : initialComputePosition(index) = "win"},
                      NumIndex + 1)

\* C34: the won indices a signature ends with do not depend on the interleaving
\* of the workers nor on their number: once the sweep loop has ended they are
\* the indices one thread sweeping alone arrives at, and so are the stored bits.
C34_ResultIsDeterministic ==
    /\ loopHasEnded => won = resultOfOneThread
    /\ phase = "done" => file.bits = resultOfOneThread

\* a worker has read the won bit of a successor before another position of the
\* same sweep set it: the white position is still open and is flagged
C34_Witness ==
    /\ phase = "sweep"
    /\ \E index \in Index, successor \in Index :
          /\ index # successor
          /\ isWhiteToMove(index)
          /\ successor \in pos[index + 1].quiet
          /\ evaluations[index] = 1 /\ index \notin won
          /\ evaluations[successor] = 1 /\ successor \in won
          /\ \E t \in Threads : index \in candidatesOf[t]

(***************************************************************************)
(* BitbaseGenerator::computeBitbaseRec: the bitbases a signature needs     *)
(***************************************************************************)
\* number of bitbase files in the working directory at the start
MaxFiles == 1

WhitePieces == {"Q", "R", "B", "N", "P"}
BlackPieces == {"q", "r", "b", "n", "p"}
Pieces == WhitePieces \cup BlackPieces

toBlack(piece) ==
    CASE piece = "Q" -> "q" [] piece = "R" -> "r" [] piece = "B" -> "b"
      [] piece = "N" -> "n" [] OTHER -> "p"

\* faulty variant of isBitbaseAvailable: no bitbase is found in the registry
isBitbaseAvailableNever(pieceList) == FALSE

\* faulty variant of isPawn: no piece is taken for a pawn
isPawnNever(piece) == FALSE

isPawn(piece) == piece \in {"P", "p"}

\* for (Piece piece = QUEEN; piece >= KNIGHT; piece -= 2)
PromotionPieces == <<"Q", "R", "B", "N">>

\* PieceList::promotePawn: the pawn becomes a piece of its colour
promotePawn(pieceList, pieceNo, piece) ==
    [pieceList EXCEPT ![pieceNo + 1] = IF @ \in WhitePieces THEN piece ELSE toBlack(piece)]

\* PieceList::removePiece
removePiece(pieceList, pieceNo) ==
    SubSeq(pieceList, 1, pieceNo) \o SubSeq(pieceList, pieceNo + 2, Len(pieceList))

\* PieceSignature: the number of pieces of every kind
getPiecesSignature(pieceList) ==
    [p \in Pieces |-> Cardinality({k \in 3 .. Len(pieceList) : pieceList[k] = p})]

isBitbaseAvailable(pieceList) == getPiecesSignature(pieceList) \in available

\* BitbaseReader::loadBitbase: the bitbase is loaded if its file can be read
loadBitbase(pieceList) ==
    IF getPiecesSignature(pieceList) \in disk
    THEN available \cup {getPiecesSignature(pieceList)}
    ELSE available \ {getPiecesSignature(pieceList)}

\* the piece lists the generation is started with (bitgenerate KPK, KPKP,
\* KPPK, KNKP, KQPKR): the kings first, white pieces before black pieces
StartLists ==
    {<<"K", "k", "P">>, <<"K", "k", "P", "p">>, <<"K", "k", "P", "P">>,
     <<"K", "k", "N", "p">>, <<"K", "k", "Q", "P", "r">>}

\* the files that may be in the working directory at the start: the bitbase
\* of the piece list and the bitbases one capture away from it
StartFiles(pieceList) ==
    {getPiecesSignature(pieceList)}
    \cup {getPiecesSignature(removePiece(pieceList, k)) : k \in 2 .. (Len(pieceList) - 1)}

Frame(pieceList) == [pieceList |-> pieceList, pieceNo |-> 2, promo |-> 0, pc |-> "enter"]

Top == recStack[Len(recStack)]

Pop == SubSeq(recStack, 1, Len(recStack) - 1)

InitRec ==
    /\ \E start \in StartLists :
         /\ recStack = <<Frame(start)>>
         /\ disk \in {d \in SUBSET StartFiles(start) : Cardinality(d) <= MaxFiles}
    /\ available = {} /\ recComputed = {} /\ recReturned = {} /\ recOrder = <<>>
    /\ GenOff /\ IdxIdle /\ StoIdle /\ RdrIdle /\ IdIdle /\ ClkIdle /\ RevIdle /\ PkgIdle /\ AspIdle /\ EvalIdle /\ TimIdle /\ MatIdle

\* entry of computeBitbaseRec: nothing to do for two kings, else the bitbase
\* is loaded from its file if there is one
RecEnter ==
    /\ recStack # <<>>
    /\ Top.pc = "enter"
    /\ IF Len(Top.pieceList) <= 2
       THEN /\ recStack' = Pop
            /\ recReturned' = recReturned \cup {getPiecesSignature(Top.pieceList)}
            /\ UNCHANGED available
       ELSE /\ available' = IF ~isBitbaseAvailable(Top.pieceList)
                            THEN loadBitbase(Top.pieceList) ELSE available
            /\ recStack' = [recStack EXCEPT ![Len(recStack)].pc = "loop"]
            /\ UNCHANGED recReturned
    /\ UNCHANGED <<disk, recComputed, recOrder>>
    /\ UNCHANGED notRec

\* the promotion loop: the pawn pieceNo becomes the next piece and the
\* recursion is entered for the new piece list
RecPromote ==
    /\ recStack # <<>>
    /\ Top.pc = "loop"
    /\ Top.pieceNo < Len(Top.pieceList)
    /\ isPawn(Top.pieceList[Top.pieceNo + 1])
    /\ Top.promo < Len(PromotionPieces)
    /\ recStack' = Append([recStack EXCEPT ![Len(recStack)].promo = @ + 1],
                          Frame(promotePawn(Top.pieceList, Top.pieceNo,
                                            PromotionPieces[Top.promo + 1])))
    /\ UNCHANGED <<available, disk, recComputed, recReturned, recOrder>>
    /\ UNCHANGED notRec

\* the piece pieceNo is removed, the recursion is entered for the new piece
\* list, and the loop goes on with the next piece
RecRemove ==
    /\ recStack # <<>>
    /\ Top.pc = "loop"
    /\ Top.pieceNo < Len(Top.pieceList)
    /\ isPawn(Top.pieceList[Top.pieceNo + 1]) => Top.promo = Len(PromotionPieces)
    /\ recStack' = Append([recStack EXCEPT ![Len(recStack)].pieceNo = @ + 1,
                                           ![Len(recStack)].promo = 0],
                          Frame(removePiece(Top.pieceList, Top.pieceNo)))
    /\ UNCHANGED <<available, disk, recComputed, recReturned, recOrder>>
    /\ UNCHANGED notRec

\* after the loop: computeBitbase(pieceList) unless the bitbase is available;
\* computeBitbase stores the file and registers the bitbase
RecFinish ==
    /\ recStack # <<>>
    /\ Top.pc = "loop"
    /\ Top.pieceNo >= Len(Top.pieceList)
    /\ LET sig == getPiecesSignature(Top.pieceList)
       IN /\ IF ~isBitbaseAvailable(Top.pieceList)
             THEN /\ recComputed' = recComputed \cup {sig}
                  /\ recOrder' = Append(recOrder, sig)
                  /\ available' = available \cup {sig}
                  /\ disk' = disk \cup {sig}
             ELSE UNCHANGED <<recComputed, recOrder, available, disk>>
          /\ recReturned' = recReturned \cup {sig}
    /\ recStack' = Pop
    /\ UNCHANGED notRec

NextRec == RecEnter \/ RecPromote \/ RecRemove \/ RecFinish

SpecRec == InitRec /\ [][NextRec]_vars

(***************************************************************************)
(* Properties of the recursive generation                                  *)
(***************************************************************************)
\* the extra pieces of a signature
PieceCount(sig) ==
    sig["Q"] + sig["R"] + sig["B"] + sig["N"] + sig["P"]
    + sig["q"] + sig["r"] + sig["b"] + sig["n"] + sig["p"]

\* the signatures one capture away from s
Captures(s) == {[s EXCEPT ![x] = @ - 1] : x \in {y \in Pieces : s[y] > 0}}

\* the signatures one promotion away from s
Promotions(s) ==
    {[s EXCEPT !["P"] = @ - 1, ![x] = @ + 1] :
       x \in {y \in {"Q", "R", "B", "N"} : s["P"] > 0}}
    \cup {[s EXCEPT !["p"] = @ - 1, ![x] = @ + 1] :
            x \in {y \in {"q", "r", "b", "n"} : s["p"] > 0}}

\* C6: when the bitbase of a signature is computed, the recursive generation
\* has returned for every signature one capture or one promotion away from
\* it, and so it has for every signature the generation has returned for
C6_PrerequisitesFirst ==
    \A s \in recComputed \cup {r \in recReturned : PieceCount(r) > 0} :
        Captures(s) \cup Promotions(s) \subseteq recReturned

\* a bitbase with a pawn and another piece has been computed after the
\* bitbase of one of its promotions
C6_Witness ==
    \E s \in recComputed :
        /\ s["P"] + s["p"] > 0
        /\ PieceCount(s) = 2
        /\ Promotions(s) \cap recComputed # {}
        /\ recStack = <<>>

\* number of pieces the stronger (white, first-listed) side has besides its king
StrongerPieceCount(sig) == sig["Q"] + sig["R"] + sig["B"] + sig["N"] + sig["P"]

\* C14: no bitbase is computed for a signature in which the stronger side has
\* no piece besides its king, also when the signature is reached as a
\* prerequisite by removing a piece
C14_LoneKingSkipped ==
    \A s \in recComputed : StrongerPieceCount(s) > 0

\* C25: no signature is generated twice in a run, every generated signature is
\* available from then on, and a signature is generated only while it is not
\* available (neither loaded from its file nor generated earlier)
C25_GeneratedAtMostOnce ==
    /\ [](/\ \A k, l \in 1 .. Len(recOrder) : recOrder[k] = recOrder[l] => k = l
          /\ \A k \in 1 .. Len(recOrder) : recOrder[k] \in available)
    /\ [][recOrder' # recOrder =>
             /\ Len(recOrder') = Len(recOrder) + 1
             /\ recOrder'[Len(recOrder')] \notin available
             /\ recOrder'[Len(recOrder')] \in available']_vars
    /\ [][available \subseteq available']_vars

\* the recursion has come to the end of a call for a signature that was generated
\* earlier in the run, and to the end of a call for one loaded from its file
C25_Witness ==
    /\ recStack # <<>>
    /\ Top.pc = "loop"
    /\ Top.pieceNo >= Len(Top.pieceList)
    /\ \E k \in 1 .. Len(recOrder) : recOrder[k] = getPiecesSignature(Top.pieceList)
    /\ available \ recComputed # {}


(***************************************************************************)
(* BitbaseReader: the registry of bitbases and the probe of a position     *)
(***************************************************************************)
\* the evaluations handed to the probe are -MaxEval .. MaxEval
MaxEval == 2
\* number of indices of a bitbase of the reader
RdrSize == 1
\* WINNING_BONUS, larger than every evaluation handed to the probe
WINNING_BONUS == MaxEval + 1

Evals == (0 - MaxEval) .. MaxEval
RdrIndex == 0 .. (RdrSize - 1)

\* the piece signatures of the probed positions: white pieces, black pieces
RdrSignatures ==
    {[white |-> "KP", black |-> "K"], [white |-> "K", black |-> "KP"],
     [white |-> "KP", black |-> "KP"]}

\* PieceSignature::changeSide
changeSide(signature) == [white |-> signature.black, black |-> signature.white]

\* an entry of _bitbases: a Bitbase object, loaded or not
NoBitbase == [present |-> FALSE, loaded |-> FALSE, bits |-> {}, errors |-> {}]

\* Bitbase::isLoaded of the entry found, false if there is no entry
isLoaded(signature) == bitbases[signature].present /\ bitbases[signature].loaded

\* Bitbase::getBit: 1 if the bit is set, 0 if not, and -1 on error
getBit(signature, index) ==
    IF index \in bitbases[signature].errors THEN -1
    ELSE IF index \in bitbases[signature].bits THEN 1 ELSE 0

\* getValueFromBitbase(position, signature, currentValue); bool wins =
\* getBit(index) is true for every value but 0
getValueFromSingleBitbase(signature, index, currentValue) ==
    IF isLoaded(signature)
    THEN (IF getBit(signature, index) # 0 THEN currentValue + WINNING_BONUS ELSE 0)
    ELSE currentValue

\* faulty variant of getValueFromBitbase: the value of the second lookup keeps the
\* sign of the other side
getValueFromBitbaseNoNegate(signature, index, currentValue) ==
    LET result == getValueFromSingleBitbase(signature, index, currentValue)
    IN IF result = currentValue
       THEN getValueFromSingleBitbase(changeSide(signature), index, 0 - currentValue)
       ELSE result

\* getValueFromBitbase(position, currentValue)
getValueFromBitbase(signature, index, currentValue) ==
    LET result == getValueFromSingleBitbase(signature, index, currentValue)
    IN IF result = currentValue
       THEN 0 - getValueFromSingleBitbase(changeSide(signature), index, 0 - currentValue)
       ELSE result

InitRdr ==
    /\ bitbases = [s \in RdrSignatures |-> NoBitbase]
    /\ probe = <<>>
    /\ GenOff /\ RecIdle /\ IdxIdle /\ StoIdle /\ IdIdle /\ ClkIdle /\ RevIdle /\ PkgIdle /\ AspIdle /\ EvalIdle /\ TimIdle /\ MatIdle

\* BitbaseReader::loadBitbase: the entry is replaced by the bitbase read
\* from the file, which is not loaded if the file could not be read; errors
\* are the indices for which getBit of the bitbase reports an error
LoadBitbase ==
    /\ \E signature \in RdrSignatures, readOk \in BOOLEAN, bits \in SUBSET RdrIndex,
          errors \in SUBSET RdrIndex :
         bitbases' = [bitbases EXCEPT ![signature] =
                        [present |-> TRUE, loaded |-> readOk,
                         bits |-> IF readOk THEN bits ELSE {},
                         errors |-> IF readOk THEN errors ELSE {}]]
    /\ UNCHANGED probe
    /\ UNCHANGED notRdr

\* BitbaseReader::setBitbase
SetBitbase ==
    /\ \E signature \in RdrSignatures, bits \in SUBSET RdrIndex :
         bitbases' = [bitbases EXCEPT ![signature] =
                        [present |-> TRUE, loaded |-> TRUE, bits |-> bits, errors |-> {}]]
    /\ UNCHANGED probe
    /\ UNCHANGED notRdr

\* a position is probed: getValueFromBitbase(position, currentValue)
Probe ==
    /\ \E signature \in RdrSignatures, index \in RdrIndex, currentValue \in Evals :
         probe' = [signature |-> signature, index |-> index,
                   currentValue |-> currentValue,
                   noBitbase |-> ~isLoaded(signature) /\ ~isLoaded(changeSide(signature)),
                   loadFailed |-> bitbases[signature].present /\ ~isLoaded(signature),
                   loaded |-> isLoaded(signature),
                   bit |-> getBit(signature, index),
                   loadedSwapped |-> isLoaded(changeSide(signature)),
                   bitSwapped |-> getBit(changeSide(signature), index),
                   result |-> getValueFromBitbase(signature, index, currentValue)]
    /\ UNCHANGED bitbases
    /\ UNCHANGED notRdr

NextRdr == LoadBitbase \/ SetBitbase \/ Probe

SpecRdr == InitRdr /\ [][NextRdr]_vars

(***************************************************************************)
(* Properties of the reader                                                *)
(***************************************************************************)
\* C9: a probe made while neither the signature of the position nor the
\* side-swapped signature has a loaded bitbase returns the current value
C9_FallbackToCurrentValue ==
    (probe # <<>> /\ probe.noBitbase) => probe.result = probe.currentValue

\* a position is probed after the load of its bitbase failed, with a current
\* value other than zero
C9_Witness ==
    /\ probe # <<>>
    /\ probe.noBitbase
    /\ probe.loadFailed
    /\ probe.signature.white # probe.signature.black
    /\ probe.currentValue # 0
    /\ probe.result = probe.currentValue

\* C27: a probe covered by a loaded bitbase returns currentValue + WINNING_BONUS
\* if the bitbase of the signature marks the position won, currentValue -
\* WINNING_BONUS if the bitbase of the side-swapped signature marks it won (and
\* the first does not), and 0 only if no loaded bitbase marks it won
C27_ProbeValue ==
    (probe # <<>> /\ (probe.loaded \/ probe.loadedSwapped)) =>
        LET wonHere == probe.loaded /\ probe.bit = 1
            wonSwapped == probe.loadedSwapped /\ probe.bitSwapped = 1
        IN /\ wonHere => probe.result = probe.currentValue + WINNING_BONUS
           /\ (wonSwapped /\ ~wonHere) =>
                 probe.result = probe.currentValue - WINNING_BONUS
           /\ probe.result = 0 => (~wonHere /\ ~wonSwapped)

\* C28: a probe whose read of a loaded bitbase fails gets no winning bonus from
\* that bitbase: the lookup counts as if the bitbase were not present
C28_ReadErrorIsNoWin ==
    (probe # <<>> /\ probe.loaded /\ probe.bit = -1) =>
        probe.result # probe.currentValue + WINNING_BONUS


(***************************************************************************)
(* IterativeDeepening::searchByIterativeDeepening                          *)
(***************************************************************************)
\* the largest search depth limit set in the clock setting
MaxDepthLimit == 6

MAX_SEARCH_DEPTH == 128

\* MAX_VALUE, the value of a mate at the root
MAX_VALUE == 30000

SECURITY_BUFFER == 2

\* the position values a search iteration may leave in computingInfo: no
\* mate, a mate in one or in five plies for either side
PositionValues == {0, MAX_VALUE - 1, 1 - MAX_VALUE, MAX_VALUE - 5, 5 - MAX_VALUE}

abs(value) == IF value < 0 THEN 0 - value ELSE value

\* faulty variant of hasMateFound: every value is taken for a mate
hasMateFoundAlways(value, searchDepth) == TRUE

hasMateFound(value, searchDepth) ==
    abs(value) > MAX_VALUE - searchDepth + SECURITY_BUFFER

\* number of plies the PV store holds
PvLength == 2

Moves == {"e2e4", "d2d4"}

EMPTY_MOVE == "empty"

\* PV::setMove(ply, move)
setMove(store, ply, move) == [store EXCEPT ![ply] = move]

\* faulty variant of clearPV: the first entry is cleared
clearPVFirstEntry(store) == setMove(store, 0, EMPTY_MOVE)

\* computingInfo.pvMovesStore.setMove(1, Move::EMPTY_MOVE): the first move is
\* kept for the case that the search is aborted without result
clearPV(store) == setMove(store, 1, EMPTY_MOVE)

\* the principal variations a search that is not aborted may store
PrincipalVariations ==
    {pv \in [0 .. (PvLength - 1) -> Moves \cup {EMPTY_MOVE}] :
        /\ pv[0] # EMPTY_MOVE
        /\ \A k \in 1 .. (PvLength - 1) : pv[k - 1] = EMPTY_MOVE => pv[k] = EMPTY_MOVE}

\* search.searchRec: the search runs to its end and stores its principal
\* variation, or it is aborted after it has established a best move, which
\* it stores, or it is aborted before and stores nothing
SearchResults(store) ==
    {[kind |-> "completed", store |-> pv] : pv \in PrincipalVariations}
    \cup {[kind |-> "abortedWithMove", store |-> setMove(store, 0, move)] : move \in Moves}
    \cup {[kind |-> "abortedWithoutMove", store |-> store]}

\* what earlier searches may have left in the transposition table
TableContents == {{}, {"old"}}

\* TT::clear: no entry is left
clear(table) == [table EXCEPT !.entries = {}]

\* TT::setToNextMove: the age of the table is advanced, the entries stay
setToNextMove(table) == [table EXCEPT !.age = @ + 1]

\* faulty variant of tableMaintenance: the table is cleared in every mode
tableMaintenanceAlwaysClear(analyze) == "clear"

\* if (timeManager.isAnalyzeMode()) tt.clear(); else tt.setToNextMove();
tableMaintenance(analyze) == IF analyze THEN "clear" ELSE "setToNextMove"

\* faulty variant of maxDepthFor: the limit is taken as it is, also when none is set
maxDepthForUnchecked(limit) == limit

\* maxDepth: MAX_SEARCH_DEPTH, or the search depth limit of the clock setting
\* if it is greater than 0
maxDepthFor(limit) == IF limit > 0 THEN limit ELSE MAX_SEARCH_DEPTH

InitId ==
    /\ idPc = "start"
    /\ depthLimit \in 0 .. MaxDepthLimit
    /\ maxDepth = 0 /\ curDepth = 0
    /\ searched = <<>> /\ positionValue = 0 /\ exitReason = "none"
    /\ pvMovesStore = [k \in 0 .. (PvLength - 1) |-> EMPTY_MOVE]
    /\ lastAttempt = "none" /\ completedMove = EMPTY_MOVE
    /\ analyzeMode \in BOOLEAN
    /\ tt \in {[entries |-> e, age |-> 0] : e \in TableContents}
    /\ ttSteps = <<>>
    /\ GenOff /\ RecIdle /\ IdxIdle /\ StoIdle /\ RdrIdle /\ ClkIdle /\ RevIdle /\ PkgIdle /\ AspIdle /\ EvalIdle /\ TimIdle /\ MatIdle

\* the search is set up: maxDepth is the depth limit if one is set
StartSearch ==
    /\ idPc = "start"
    /\ maxDepth' = maxDepthFor(depthLimit)
    /\ curDepth' = 0
    /\ idPc' = "loop"
    /\ ttSteps' = Append(ttSteps, tableMaintenance(analyzeMode))
    /\ tt' = IF tableMaintenance(analyzeMode) = "clear" THEN clear(tt) ELSE setToNextMove(tt)
    /\ UNCHANGED <<depthLimit, searched, positionValue, exitReason, analyzeMode>>
    /\ UNCHANGED <<pvMovesStore, lastAttempt, completedMove>>
    /\ UNCHANGED notId

\* the body of the loop of searchOneIteration: the second PV entry is
\* cleared and the position is searched
SearchAttempt ==
    /\ \E result \in SearchResults(clearPV(pvMovesStore)) :
         /\ pvMovesStore' = result.store
         /\ lastAttempt' = result.kind
         /\ completedMove' = IF result.kind = "abortedWithoutMove"
                              THEN completedMove ELSE result.store[0]
    /\ positionValue' \in PositionValues
    /\ tt' = [tt EXCEPT !.entries = @ \cup {"new"}]
    /\ UNCHANGED <<analyzeMode, ttSteps>>

\* searchOneIteration(searchBoard, computingInfo, curDepth): the first search
\* of the iteration
SearchOneIteration ==
    /\ idPc = "loop"
    /\ curDepth < maxDepth
    /\ searched' = Append(searched, curDepth)
    /\ SearchAttempt
    /\ idPc' = "iterated"
    /\ UNCHANGED <<depthLimit, maxDepth, curDepth, exitReason>>
    /\ UNCHANGED notId

\* searchOneIteration: aspirationWindow.retryWithNewWindow(computingInfo)
\* asks for another search at the same depth
RetryWithNewWindow ==
    /\ idPc = "iterated"
    /\ SearchAttempt
    /\ UNCHANGED <<idPc, depthLimit, maxDepth, curDepth, searched, exitReason>>
    /\ UNCHANGED notId

\* after the iteration: the time manager and the mate stop are asked
AfterIteration ==
    /\ idPc = "iterated"
    /\ \E mayCalculateNextDepth \in BOOLEAN, stopSearchIfMateFound \in BOOLEAN :
         IF ~mayCalculateNextDepth
         THEN /\ exitReason' = "time"
              /\ idPc' = "done"
              /\ UNCHANGED curDepth
         ELSE IF hasMateFound(positionValue, curDepth) /\ stopSearchIfMateFound
         THEN /\ exitReason' = "mate"
              /\ idPc' = "done"
              /\ UNCHANGED curDepth
         ELSE /\ curDepth' = curDepth + 1
              /\ idPc' = "loop"
              /\ UNCHANGED exitReason
    /\ UNCHANGED <<depthLimit, maxDepth, searched, positionValue>>
    /\ UNCHANGED <<pvMovesStore, lastAttempt, completedMove, analyzeMode, tt, ttSteps>>
    /\ UNCHANGED notId

\* the loop condition curDepth < maxDepth fails
EndOfLoop ==
    /\ idPc = "loop"
    /\ curDepth >= maxDepth
    /\ exitReason' = "maxDepth"
    /\ idPc' = "done"
    /\ UNCHANGED <<depthLimit, maxDepth, curDepth, searched, positionValue>>
    /\ UNCHANGED <<pvMovesStore, lastAttempt, completedMove, analyzeMode, tt, ttSteps>>
    /\ UNCHANGED notId

NextId ==
    \/ StartSearch
    \/ SearchOneIteration
    \/ RetryWithNewWindow
    \/ AfterIteration
    \/ EndOfLoop

SpecId == InitId /\ [][NextId]_vars

(***************************************************************************)
(* Properties of iterative deepening                                       *)
(***************************************************************************)
\* the largest depth of the search: 128, or the depth limit if it is set
LimitOfSearch == IF depthLimit > 0 THEN depthLimit ELSE 128

\* the mate condition of the last iteration
MateSeen ==
    /\ searched # <<>>
    /\ (IF positionValue < 0 THEN 0 - positionValue ELSE positionValue)
         > 30000 - searched[Len(searched)] + 2

\* C10 as stated: the iterations run at the depths 1, 2, ... up to max_depth,
\* and the loop ends only when max_depth has been searched, the time manager
\* refuses the next depth, or a mate is found
C10_DepthsFromOne ==
    /\ \A k \in 1 .. Len(searched) : searched[k] = k
    /\ Len(searched) <= LimitOfSearch
    /\ idPc = "done" =>
          \/ exitReason = "maxDepth" /\ searched # <<>>
                                     /\ searched[Len(searched)] = LimitOfSearch
          \/ exitReason = "time"
          \/ exitReason = "mate" /\ MateSeen

\* C10 amended: the iterations run at the search depths 0, 1, ... up to
\* max_depth - 1, at most max_depth of them, and the loop ends only when
\* max_depth iterations have been run, the time manager refuses the next
\* depth, or a mate is found
C10_DepthsFromZero ==
    /\ \A k \in 1 .. Len(searched) : searched[k] = k - 1
    /\ Len(searched) <= LimitOfSearch
    /\ idPc = "done" =>
          \/ exitReason = "maxDepth" /\ Len(searched) = LimitOfSearch
                                     /\ searched[Len(searched)] = LimitOfSearch - 1
          \/ exitReason = "time" /\ searched # <<>>
          \/ exitReason = "mate" /\ MateSeen

\* C11: after a search that was aborted before it established a best move,
\* the first entry of the PV store is the first PV move of the last search
\* that had one: the move of the last completed iteration is reported
C11_MoveKeptOnAbort ==
    lastAttempt = "abortedWithoutMove" =>
        /\ pvMovesStore[0] = completedMove
        /\ pvMovesStore[1] = EMPTY_MOVE

\* an iteration after the first is aborted without result, an earlier
\* search has stored a move
C11_Witness ==
    /\ lastAttempt = "abortedWithoutMove"
    /\ Len(searched) >= 2
    /\ completedMove # EMPTY_MOVE
    /\ pvMovesStore[0] = completedMove

\* a search without depth limit has run all its 128 iterations
C10_Witness ==
    /\ idPc = "done"
    /\ depthLimit = 0
    /\ exitReason = "maxDepth"
    /\ Len(searched) = 128
    /\ searched[1] = 0

C36_FirstIterationAlwaysRuns ==
    /\ [](idPc \in {"iterated", "done"} =>
            /\ searched # <<>> /\ searched[1] = 0
            /\ lastAttempt # "none"
            /\ "new" \in tt.entries)
    /\ [][AfterIteration => (searched # <<>> /\ idPc = "iterated")]_vars
    /\ [][exitReason' # exitReason => searched # <<>>]_vars

\* the time manager has refused the second depth of a search without depth
\* limit: the search has returned after its first iteration
C36_Witness ==
    /\ idPc = "done"
    /\ exitReason = "time"
    /\ depthLimit = 0
    /\ searched = <<0>>
    /\ lastAttempt = "completed"

(***************************************************************************)
(* Bit index: the mapping between the positions of a signature and the     *)
(* indices of its bitbase (BoardAccess, BitbaseIndex)                      *)
(***************************************************************************)
\* files and ranks of the board (8 in the program)
BoardSize == 4

Squares == 0 .. (BoardSize * BoardSize - 1)

getFile(square) == square % BoardSize

getRank(square) == square \div BoardSize

computeSquare(f, r) == r * BoardSize + f

\* the piece lists of the index mapping: the kings first
IdxPieceLists == {<<"K", "k", "Q">>, <<"K", "k", "P">>}

hasPawn(pieceList) == \E k \in 1 .. Len(pieceList) : pieceList[k] \in {"P", "p"}

\* the symmetries of the board: mirror the files, mirror the ranks, swap
\* files and ranks; with pawns only the files are mirrored
Symmetries(pieceList) == IF hasPawn(pieceList) THEN {0, 1} ELSE 0 .. 7

mapSquare(sym, square) ==
    LET f1 == IF sym % 2 = 1 THEN BoardSize - 1 - getFile(square) ELSE getFile(square)
        r1 == IF (sym \div 2) % 2 = 1 THEN BoardSize - 1 - getRank(square)
              ELSE getRank(square)
    IN IF sym \div 4 = 1 THEN computeSquare(r1, f1) ELSE computeSquare(f1, r1)

\* the canonical region of the white king: the left half with pawns (32
\* squares of 64), the triangle a1-d1-d4 without (10 squares of 64)
KingRegion(pieceList) ==
    {sq \in Squares :
        /\ 2 * getFile(sq) < BoardSize
        /\ ~hasPawn(pieceList) => (2 * getRank(sq) < BoardSize /\ getRank(sq) <= getFile(sq))}

\* the number of squares of a set below a square
RankIn(set, square) == Cardinality({sq \in set : sq < square})

SquareAt(set, number) == CHOOSE sq \in set : RankIn(set, sq) = number

isAdjacent(a, b) ==
    /\ getFile(a) - getFile(b) \in {-1, 0, 1}
    /\ getRank(a) - getRank(b) \in {-1, 0, 1}

\* a legal placement: one piece a square, the kings apart, no pawn on the
\* first or the last rank
isLegalPlacement(squares, pieceList) ==
    /\ \A i, j \in 1 .. Len(squares) : i # j => squares[i] # squares[j]
    /\ ~isAdjacent(squares[1], squares[2])
    /\ \A i \in 1 .. Len(squares) :
         pieceList[i] \in {"P", "p"} => getRank(squares[i]) \in 1 .. (BoardSize - 2)

clearBoard == [sq \in Squares |-> "."]

\* the position with the pieces of the list on the squares
PositionOf(squares, pieceList, wtm) ==
    [legal |-> TRUE,
     board |-> [sq \in Squares |->
                  IF \E k \in 1 .. Len(squares) : squares[k] = sq
                  THEN pieceList[CHOOSE k \in 1 .. Len(squares) : squares[k] = sq]
                  ELSE "."],
     wtm |-> wtm]

IllegalPosition == [legal |-> FALSE, board |-> clearBoard, wtm |-> TRUE]

\* the square of a piece of the position
getSquareOf(position, piece) == CHOOSE sq \in Squares : position.board[sq] = piece

\* the symmetry that takes the white king into its region
symmetryOf(position, pieceList) ==
    CHOOSE sym \in Symmetries(pieceList) :
        /\ mapSquare(sym, getSquareOf(position, "K")) \in KingRegion(pieceList)
        /\ \A other \in Symmetries(pieceList) :
             mapSquare(other, getSquareOf(position, "K")) \in KingRegion(pieceList)
                => sym <= other

\* the squares of the pieces from piece pieceNo on, as a number
RECURSIVE indexOfPieces(_, _, _, _)
indexOfPieces(position, pieceList, sym, pieceNo) ==
    IF pieceNo >= Len(pieceList) THEN 0
    ELSE mapSquare(sym, getSquareOf(position, pieceList[pieceNo + 1]))
         + BoardSize * BoardSize * indexOfPieces(position, pieceList, sym, pieceNo + 1)

\* BoardAccess::computeIndex: the side to move, the white king in its
\* region, then the squares of the other pieces
computeIndex(position, pieceList) ==
    LET sym == symmetryOf(position, pieceList)
        region == KingRegion(pieceList)
        king == RankIn(region, mapSquare(sym, getSquareOf(position, "K")))
    IN (IF position.wtm THEN 0 ELSE 1)
       + 2 * (king + Cardinality(region) * indexOfPieces(position, pieceList, sym, 1))

\* BitbaseIndex::getSquare: the squares an index decodes to
RECURSIVE squaresOfIndex(_, _)
squaresOfIndex(rest, count) ==
    IF count = 0 THEN <<>>
    ELSE <<rest % (BoardSize * BoardSize)>>
         \o squaresOfIndex(rest \div (BoardSize * BoardSize), count - 1)

getSquares(index, pieceList) ==
    LET region == KingRegion(pieceList)
    IN <<SquareAt(region, (index \div 2) % Cardinality(region))>>
       \o squaresOfIndex((index \div 2) \div Cardinality(region), Len(pieceList) - 1)

\* the number of indices of the bitbase of a piece list
RECURSIVE power(_, _)
power(base, exponent) == IF exponent = 0 THEN 1 ELSE base * power(base, exponent - 1)

getSizeInBit(pieceList) ==
    2 * Cardinality(KingRegion(pieceList))
      * power(BoardSize * BoardSize, Len(pieceList) - 1)

\* BitbaseIndex::isLegal
isLegalBitbaseIndex(index, pieceList) ==
    /\ index < getSizeInBit(pieceList)
    /\ isLegalPlacement(getSquares(index, pieceList), pieceList)

setPiece(board, square, piece) == [board EXCEPT ![square] = piece]

\* the loop of addPiecesToPosition over the pieces besides the kings
RECURSIVE addPieces(_, _, _, _)
addPieces(board, squares, pieceList, pieceNo) ==
    IF pieceNo >= Len(pieceList) THEN board
    ELSE addPieces(setPiece(board, squares[pieceNo + 1], pieceList[pieceNo + 1]),
                   squares, pieceList, pieceNo + 1)

\* faulty variant of addPiecesToPosition: the squares of the kings are mixed up
addPiecesToPositionKingsSwapped(squares, pieceList, wtm) ==
    [legal |-> TRUE,
     board |-> addPieces(setPiece(setPiece(clearBoard, squares[2], "K"), squares[1], "k"),
                         squares, pieceList, 2),
     wtm |-> wtm]

\* BitbaseGenerator::addPiecesToPosition
addPiecesToPosition(squares, pieceList, wtm) ==
    [legal |-> TRUE,
     board |-> addPieces(setPiece(setPiece(clearBoard, squares[1], "K"), squares[2], "k"),
                         squares, pieceList, 2),
     wtm |-> wtm]

\* index_to_position: the position of an index, or illegal
indexToPosition(index, pieceList) ==
    IF isLegalBitbaseIndex(index, pieceList)
    THEN addPiecesToPosition(getSquares(index, pieceList), pieceList, isWhiteToMove(index))
    ELSE IllegalPosition

\* the legal positions of a piece list
LegalPositions(pieceList) ==
    {PositionOf(squares, pieceList, wtm) :
        squares \in {s \in [1 .. Len(pieceList) -> Squares] : isLegalPlacement(s, pieceList)},
        wtm \in BOOLEAN}

InitIdx ==
    /\ idxPc = "position"
    /\ idxList \in IdxPieceLists
    /\ idxPosition \in LegalPositions(idxList)
    /\ idxIndex = 0
    /\ idxDecoded = <<>>
    /\ idxTest = 0
    /\ GenOff /\ RecIdle /\ StoIdle /\ RdrIdle /\ IdIdle /\ ClkIdle /\ RevIdle /\ PkgIdle /\ AspIdle /\ EvalIdle /\ TimIdle /\ MatIdle

\* compute_index(p)
ComputeIndex ==
    /\ idxPc = "position"
    /\ idxIndex' = computeIndex(idxPosition, idxList)
    /\ idxPc' = "index"
    /\ UNCHANGED <<idxList, idxPosition, idxDecoded, idxTest>>
    /\ UNCHANGED notIdx

\* index_to_position(index)
DecodeIndex ==
    /\ idxPc = "index"
    /\ idxDecoded' = indexToPosition(idxIndex, idxList)
    /\ idxPc' = "decoded"
    /\ UNCHANGED <<idxList, idxPosition, idxIndex, idxTest>>
    /\ UNCHANGED notIdx

NextIdx == ComputeIndex \/ DecodeIndex

SpecIdx == InitIdx /\ [][NextIdx]_vars

(***************************************************************************)
(* Properties of the index mapping                                         *)
(***************************************************************************)
\* the position mapped by a symmetry
mapPosition(sym, position) ==
    [legal |-> position.legal,
     board |-> [sq \in Squares |->
                  position.board[CHOOSE from \in Squares : mapSquare(sym, from) = sq]],
     wtm |-> position.wtm]

\* C7: the position of the index of a legal position p is legal, it is p
\* mapped by a symmetry of the signature, and its white king is in the
\* canonical region
C7_IndexRoundTrip ==
    idxPc = "decoded" =>
        /\ idxDecoded.legal
        /\ \E sym \in Symmetries(idxList) : idxDecoded = mapPosition(sym, idxPosition)
        /\ \E sq \in KingRegion(idxList) : idxDecoded.board[sq] = "K"

\* the round trip of a position with a pawn and black to move whose white
\* king is outside the canonical region: the position comes back mirrored
C7_Witness ==
    /\ idxPc = "decoded"
    /\ hasPawn(idxList)
    /\ ~idxPosition.wtm
    /\ \A sq \in KingRegion(idxList) : idxPosition.board[sq] # "K"
    /\ idxDecoded # idxPosition
    /\ idxDecoded.legal


(***************************************************************************)
(* Bitbase storage: the bit array, its clustered file and the cluster      *)
(* cache (Bitbase, ClusterCache, QaplaCompress)                            *)
(***************************************************************************)
\* bits of an element of the bit array (sizeof(bbt_t) * 8 in the program)
BITS_IN_ELEMENT == 2
\* elements of a cluster (16 KiB of elements in the program)
ClusterSizeInElements == 2
\* largest size of a bitbase in bits
MaxSizeInBit == 5
\* clusters the cluster cache holds (511 in the program)
CacheSize == 1

CompressionTypes == {"none", "runLength"}

\* the bitbases that are stored: a signature, a size, the bits that are set
Originals ==
    {[signature |-> "KPK", sizeInBits |-> n, bits |-> b] :
        n \in 0 .. MaxSizeInBit, b \in SUBSET (0 .. (MaxSizeInBit - 1))}

\* faulty variant of getSize: the size in elements is rounded down
getSizeRoundedDown(sizeInBits) == sizeInBits \div BITS_IN_ELEMENT

\* Bitbase::getSize: the size of the bit array in elements
getSize(sizeInBits) == (sizeInBits + BITS_IN_ELEMENT - 1) \div BITS_IN_ELEMENT

\* the value of element number elementNo of the bit array, bit by bit
RECURSIVE elementOf(_, _, _)
elementOf(bits, elementNo, bitNo) ==
    IF bitNo = BITS_IN_ELEMENT THEN 0
    ELSE (IF elementNo * BITS_IN_ELEMENT + bitNo \in bits THEN power(2, bitNo) ELSE 0)
         + elementOf(bits, elementNo, bitNo + 1)

\* _bitbase: the vector of elements of a bitbase
bitbaseVector(bitbase) ==
    [e \in 1 .. getSize(bitbase.sizeInBits) |-> elementOf(bitbase.bits, e - 1, 0)]

numberOfClusters(vector) ==
    (Len(vector) + ClusterSizeInElements - 1) \div ClusterSizeInElements

clusterOf(vector, clusterNo) ==
    SubSeq(vector, clusterNo * ClusterSizeInElements + 1,
           Min((clusterNo + 1) * ClusterSizeInElements, Len(vector)))

\* the length of the run of equal elements a sequence starts with
RECURSIVE runLength(_)
runLength(elements) ==
    IF Len(elements) <= 1 THEN Len(elements)
    ELSE IF elements[2] = elements[1] THEN 1 + runLength(Tail(elements))
    ELSE 1

\* run length coding of a cluster: length and value of every run
RECURSIVE compressRuns(_)
compressRuns(elements) ==
    IF elements = <<>> THEN <<>>
    ELSE <<runLength(elements), elements[1]>>
         \o compressRuns(SubSeq(elements, runLength(elements) + 1, Len(elements)))

compress(type, elements) == IF type = "none" THEN elements ELSE compressRuns(elements)

RECURSIVE repeat(_, _)
repeat(count, value) == IF count = 0 THEN <<>> ELSE <<value>> \o repeat(count - 1, value)

RECURSIVE uncompressRuns(_)
uncompressRuns(data) ==
    IF Len(data) < 2 THEN <<>>
    ELSE repeat(data[1], data[2]) \o uncompressRuns(SubSeq(data, 3, Len(data)))

uncompress(type, data) == IF type = "none" THEN data ELSE uncompressRuns(data)

\* the compressed clusters of a vector, one after the other
RECURSIVE clusterData(_, _, _)
clusterData(type, vector, clusterNo) ==
    IF clusterNo >= numberOfClusters(vector) THEN <<>>
    ELSE compress(type, clusterOf(vector, clusterNo))
         \o clusterData(type, vector, clusterNo + 1)

\* the offset table: where the clusters start in the data, and the end
RECURSIVE clusterOffsets(_, _, _, _)
clusterOffsets(type, vector, clusterNo, offset) ==
    IF clusterNo >= numberOfClusters(vector) THEN <<offset>>
    ELSE <<offset>>
         \o clusterOffsets(type, vector, clusterNo + 1,
                           offset + Len(compress(type, clusterOf(vector, clusterNo))))

NoFile == [written |-> FALSE]

\* Bitbase::storeToFile: header, offset table, compressed clusters
storeToFile(bitbase, compression) ==
    [written |-> TRUE,
     sizeInBits |-> bitbase.sizeInBits,
     clusterSize |-> ClusterSizeInElements,
     compression |-> compression,
     offsets |-> clusterOffsets(compression, bitbaseVector(bitbase), 0, 0),
     data |-> clusterData(compression, bitbaseVector(bitbase), 0)]

NotAttached == [headerLoaded |-> FALSE]

\* Bitbase::attachFromFile: the header and the offset table are read
attachFromFile(signature, fileOfSignature) ==
    [headerLoaded |-> TRUE,
     signature |-> signature,
     sizeInBits |-> fileOfSignature.sizeInBits,
     clusterSize |-> fileOfSignature.clusterSize,
     compression |-> fileOfSignature.compression,
     offsets |-> fileOfSignature.offsets]

\* the cluster of the file with the given number, uncompressed; nothing is
\* read for a cluster the offset table does not have
readCluster(attached, fileOfSignature, clusterNo) ==
    IF clusterNo + 2 > Len(attached.offsets) THEN <<>>
    ELSE uncompress(attached.compression,
                    SubSeq(fileOfSignature.data, attached.offsets[clusterNo + 1] + 1,
                           attached.offsets[clusterNo + 2]))

\* ClusterCache: the entry of a key, if there is one
cacheHit(key) == \E k \in 1 .. Len(cache) : cache[k].key = key

cacheEntry(key) == cache[CHOOSE k \in 1 .. Len(cache) : cache[k].key = key]

\* the cache after the use of an entry: the entry is the most recently used,
\* the least recently used entry leaves a full cache
cacheAfter(entry) ==
    LET others == SelectSeq(cache, LAMBDA e : e.key # entry.key)
        all == Append(others, entry)
    IN IF Len(all) > CacheSize THEN SubSeq(all, Len(all) - CacheSize + 1, Len(all)) ELSE all

\* the cluster that holds the bit, from the cache or from the file
clusterOfBit(attached, fileOfSignature, index) ==
    LET clusterNo == index \div (attached.clusterSize * BITS_IN_ELEMENT)
        key == <<attached.signature, clusterNo>>
    IN IF cacheHit(key) THEN cacheEntry(key)
       ELSE [key |-> key, elements |-> readCluster(attached, fileOfSignature, clusterNo)]

\* Bitbase::getBit of an attached bitbase: 1, 0, or -1 on error
getBitOfCluster(attached, fileOfSignature, index) ==
    LET elements == clusterOfBit(attached, fileOfSignature, index).elements
        inCluster == index % (attached.clusterSize * BITS_IN_ELEMENT)
        elementNo == inCluster \div BITS_IN_ELEMENT
    IN IF index >= attached.sizeInBits \/ elementNo >= Len(elements) THEN -1
       ELSE (elements[elementNo + 1] \div power(2, inCluster % BITS_IN_ELEMENT)) % 2

\* the cache at the start: empty, or with a cluster of another bitbase
StartCaches ==
    {<<>>} \cup {<<[key |-> <<"KQK", 0>>, elements |-> e]>> :
                   e \in {<<0>>, <<power(2, BITS_IN_ELEMENT) - 1>>}}

InitSto ==
    /\ stoPc = "start"
    /\ stoOriginal \in {o \in Originals : o.bits \subseteq 0 .. (o.sizeInBits - 1)}
    /\ stoFiles = NoFile
    /\ stoAttached = NotAttached
    /\ cache \in StartCaches
    /\ stoRead = <<>>
    /\ GenOff /\ RecIdle /\ IdxIdle /\ RdrIdle /\ IdIdle /\ ClkIdle /\ RevIdle /\ PkgIdle /\ AspIdle /\ EvalIdle /\ TimIdle /\ MatIdle

\* bitbase.storeToFile(fileName, compression)
Store ==
    /\ stoPc = "start"
    /\ \E compression \in CompressionTypes :
         stoFiles' = storeToFile(stoOriginal, compression)
    /\ stoPc' = "stored"
    /\ UNCHANGED <<stoOriginal, stoAttached, cache, stoRead>>
    /\ UNCHANGED notSto

\* bitbase.attachFromFile(pieceString)
Attach ==
    /\ stoPc = "stored"
    /\ stoAttached' = attachFromFile(stoOriginal.signature, stoFiles)
    /\ stoPc' = "attached"
    /\ UNCHANGED <<stoOriginal, stoFiles, cache, stoRead>>
    /\ UNCHANGED notSto

\* getBit(index) of the attached bitbase
GetBit ==
    /\ stoPc = "attached"
    /\ \E index \in 0 .. (stoAttached.sizeInBits - 1) :
         /\ stoRead' = [index |-> index,
                        value |-> getBitOfCluster(stoAttached, stoFiles, index)]
         /\ cache' = cacheAfter(clusterOfBit(stoAttached, stoFiles, index))
    /\ UNCHANGED <<stoPc, stoOriginal, stoFiles, stoAttached>>
    /\ UNCHANGED notSto

\* getBit of a bitbase of another signature puts its cluster into the cache
GetBitOfOther ==
    /\ stoPc = "attached"
    /\ \E e \in {<<0>>, <<power(2, BITS_IN_ELEMENT) - 1>>} :
         cache' = cacheAfter([key |-> <<"KQK", 0>>,
                              elements |-> IF cacheHit(<<"KQK", 0>>)
                                           THEN cacheEntry(<<"KQK", 0>>).elements ELSE e])
    /\ UNCHANGED <<stoPc, stoOriginal, stoFiles, stoAttached, stoRead>>
    /\ UNCHANGED notSto

NextSto == Store \/ Attach \/ GetBit \/ GetBitOfOther

SpecSto == InitSto /\ [][NextSto]_vars

(***************************************************************************)
(* Properties of the storage                                               *)
(***************************************************************************)
\* C8: after store and attach, getBit(i) of the attached bitbase is the
\* original bit, for every index i below the size in bits
C8_StorageRoundTrip ==
    stoRead # <<>> =>
        stoRead.value = (IF stoRead.index \in stoOriginal.bits THEN 1 ELSE 0)

\* a set bit of the last, partly used element of a run length coded bitbase
\* of two clusters is read, and its cluster is the one the cache holds
C8_Witness ==
    /\ stoRead # <<>>
    /\ stoRead.value = 1
    /\ stoRead.index = stoOriginal.sizeInBits - 1
    /\ stoOriginal.sizeInBits % BITS_IN_ELEMENT # 0
    /\ stoOriginal.sizeInBits > ClusterSizeInElements * BITS_IN_ELEMENT
    /\ stoFiles.compression = "runLength"
    /\ Len(stoFiles.data) # getSize(stoOriginal.sizeInBits)
    /\ cache # <<>> /\ cache[Len(cache)].key = <<"KPK", 1>>


(***************************************************************************)
(* ClockSetting, and the search time IterativeDeepening::calcSearchTime    *)
(* computes from it                                                        *)
(***************************************************************************)
\* enum Mode { compute, analyze, ponder }: the values of the enumerators
ModeValue == [compute |-> 0, analyze |-> 1, ponder |-> 2]

\* the move amounts, times and increments handed to the setters
MoveAmounts == {0, 1, 40, 79, 80, 81}

ClockTimes == {0, 79, 600000}

TimeIncrements == {0, 1000}

\* ClockSetting::setAnalyseMode(bool analyse): the condition of the
\* assignment is the enumerator analyze, not the parameter analyse
setAnalyseMode(analyse) ==
    IF ModeValue["analyze"] # 0 THEN "analyze" ELSE "compute"

\* ClockSetting::getAnalyseMode
getAnalyseMode == clkMode = "analyze"

\* faulty variant of calcSearchTime: the time is never divided by less than 80
calcSearchTimeAtLeast80(moveAmount, timeForAllMoves, increment) ==
    timeForAllMoves \div (IF moveAmount < 80 THEN 80 ELSE moveAmount) + increment

\* IterativeDeepening::calcSearchTime
calcSearchTime(moveAmount, timeForAllMoves, increment) ==
    LET movesToSearchInTime == IF moveAmount = 0 THEN 80 ELSE moveAmount
    IN timeForAllMoves \div movesToSearchInTime + increment

\* ClockSetting::reset
InitClk ==
    /\ clkMode = "compute"
    /\ moveAmountForClock = 40
    /\ timeToThink = 10 * 60 * 1000
    /\ timeIncrement = 1 * 1000
    /\ exactTime = 0
    /\ clkCall = [op |-> "reset"]
    /\ searchTime = 0
    /\ GenOff /\ RecIdle /\ IdxIdle /\ StoIdle /\ RdrIdle /\ IdIdle /\ RevIdle /\ PkgIdle /\ AspIdle /\ EvalIdle /\ TimIdle /\ MatIdle

SetAnalyseMode ==
    /\ \E analyse \in BOOLEAN :
         /\ clkMode' = setAnalyseMode(analyse)
         /\ clkCall' = [op |-> "setAnalyseMode", analyse |-> analyse]
    /\ UNCHANGED <<moveAmountForClock, timeToThink, timeIncrement, exactTime, searchTime>>
    /\ UNCHANGED notClk

SetPonderMode ==
    /\ clkMode' = "ponder"
    /\ clkCall' = [op |-> "setPonderMode"]
    /\ UNCHANGED <<moveAmountForClock, timeToThink, timeIncrement, exactTime, searchTime>>
    /\ UNCHANGED notClk

SetMoveAmountForClock ==
    /\ \E moveAmount \in MoveAmounts :
         /\ moveAmountForClock' = moveAmount
         /\ clkCall' = [op |-> "setMoveAmountForClock"]
    /\ UNCHANGED <<clkMode, timeToThink, timeIncrement, exactTime, searchTime>>
    /\ UNCHANGED notClk

\* ClockSetting::setComputerClockInMilliseconds: the exact time is left as it is
SetComputerClockInMilliseconds ==
    /\ \E clockInMilliseconds \in ClockTimes :
         /\ timeToThink' = clockInMilliseconds
         /\ clkCall' = [op |-> "setComputerClockInMilliseconds"]
    /\ UNCHANGED <<clkMode, moveAmountForClock, timeIncrement, exactTime, searchTime>>
    /\ UNCHANGED notClk

SetTimeToThinkForAllMovesInMilliseconds ==
    /\ \E milliseconds \in ClockTimes :
         /\ timeToThink' = milliseconds
         /\ exactTime' = 0
         /\ clkCall' = [op |-> "setTimeToThinkForAllMovesInMilliseconds"]
    /\ UNCHANGED <<clkMode, moveAmountForClock, timeIncrement, searchTime>>
    /\ UNCHANGED notClk

SetTimeIncrementPerMoveInMilliseconds ==
    /\ \E milliseconds \in TimeIncrements :
         /\ timeIncrement' = milliseconds
         /\ exactTime' = 0
         /\ clkCall' = [op |-> "setTimeIncrementPerMoveInMilliseconds"]
    /\ UNCHANGED <<clkMode, moveAmountForClock, timeToThink, searchTime>>
    /\ UNCHANGED notClk

SetExactTimePerMoveInMilliseconds ==
    /\ \E milliseconds \in ClockTimes :
         /\ exactTime' = milliseconds
         /\ timeToThink' = 0
         /\ timeIncrement' = 0
         /\ moveAmountForClock' = 0
         /\ clkCall' = [op |-> "setExactTimePerMoveInMilliseconds"]
    /\ UNCHANGED <<clkMode, searchTime>>
    /\ UNCHANGED notClk

\* calcSearchTime(clockSetting)
CalcSearchTime ==
    /\ searchTime' = calcSearchTime(moveAmountForClock, timeToThink, timeIncrement)
    /\ clkCall' = [op |-> "calcSearchTime"]
    /\ UNCHANGED <<clkMode, moveAmountForClock, timeToThink, timeIncrement, exactTime>>
    /\ UNCHANGED notClk

NextClk ==
    \/ SetAnalyseMode
    \/ SetPonderMode
    \/ SetMoveAmountForClock
    \/ SetComputerClockInMilliseconds
    \/ SetTimeToThinkForAllMovesInMilliseconds
    \/ SetTimeIncrementPerMoveInMilliseconds
    \/ SetExactTimePerMoveInMilliseconds
    \/ CalcSearchTime

SpecClk == InitClk /\ [][NextClk]_vars

(***************************************************************************)
(* Properties of the clock setting                                         *)
(***************************************************************************)
\* C12: after setAnalyseMode(b), getAnalyseMode() returns b
C12_GetReturnsWhatWasSet ==
    clkCall.op = "setAnalyseMode" => (getAnalyseMode <=> clkCall.analyse)

\* C13 as stated: the search time is time_left / max(moves_to_go, 80) +
\* increment
C13_DivisorAtLeast80 ==
    clkCall.op = "calcSearchTime" =>
        searchTime = timeToThink \div (IF moveAmountForClock > 80 THEN moveAmountForClock
                                       ELSE 80) + timeIncrement

\* C13 amended: the search time is time_left / moves_to_go + increment, and
\* time_left / 80 + increment when moves_to_go is 0
C13_DivisorIsMovesToGo ==
    clkCall.op = "calcSearchTime" =>
        /\ moveAmountForClock = 0 => searchTime = timeToThink \div 80 + timeIncrement
        /\ moveAmountForClock > 0 =>
             /\ searchTime = timeToThink \div moveAmountForClock + timeIncrement
             /\ (searchTime - timeIncrement) * moveAmountForClock <= timeToThink
             /\ (searchTime - timeIncrement + 1) * moveAmountForClock > timeToThink

\* the search time of a clock of 600 seconds for 40 moves is 15 seconds and
\* the increment
C13_Witness ==
    /\ clkCall.op = "calcSearchTime"
    /\ moveAmountForClock = 40
    /\ timeToThink = 600000
    /\ searchTime = 15000 + timeIncrement


\* C37: after any sequence of setter calls an exact time per move that is not
\* zero never stands together with a total thinking time, an increment or a
\* move amount that is not zero.
C37_ExactTimeExcludesClock ==
    exactTime # 0 =>
        /\ timeToThink = 0
        /\ timeIncrement = 0
        /\ moveAmountForClock = 0

(***************************************************************************)
(* BitbaseGenerator::computeCandidates: the reverse moves of a newly won   *)
(* position.  The board has NumFiles files and eight ranks; a position is  *)
(* a piece list (the kings first), the squares of its pieces and the side  *)
(* to move.  A candidate index is identified with the position it decodes  *)
(* to.                                                                     *)
(***************************************************************************)
\* number of files of the board
NumFiles == 2

\* the distance of a square to the square one rank up
NORTH == NumFiles

RevSquares == 0 .. (8 * NORTH - 1)

fileOf(square) == square % NORTH

\* the rank of a square, 1 to 8
rankOf(square) == square \div NORTH + 1

toSquare(f, r) == (r - 1) * NORTH + f

\* the first square of rank 3 and the last square of rank 6
A3 == toSquare(0, 3)

H6 == toSquare(NORTH - 1, 6)

RevPieceLists ==
    {<<"K", "k", "R">>, <<"K", "k", "P">>, <<"K", "k", "p">>, <<"K", "k", "n">>}

isWhitePiece(piece) == piece \in WhitePieces \cup {"K"}

pieceNumbers(position) == 1 .. Len(position.list)

\* the pieces of a colour
piecesOf(position, white) ==
    {k \in pieceNumbers(position) : isWhitePiece(position.list[k]) = white}

\* MoveGenerator::getAllPiecesBB
getAllPiecesBB(position) == {position.squares[k] : k \in pieceNumbers(position)}

sign(value) == IF value < 0 THEN -1 ELSE IF value > 0 THEN 1 ELSE 0

\* no square between the two squares of a line is occupied
isLineFree(from, to, occupied) ==
    LET df == fileOf(to) - fileOf(from)
        dr == rankOf(to) - rankOf(from)
        distance == IF abs(df) > abs(dr) THEN abs(df) ELSE abs(dr)
    IN \A j \in 1 .. (distance - 1) :
          toSquare(fileOf(from) + j * sign(df), rankOf(from) + j * sign(dr)) \notin occupied

\* the piece on the square from attacks the square to
attacks(piece, from, to, occupied) ==
    LET df == fileOf(to) - fileOf(from)
        dr == rankOf(to) - rankOf(from)
        straight == (df = 0) # (dr = 0)
        diagonal == abs(df) = abs(dr) /\ df # 0
    IN CASE piece \in {"K", "k"} -> from # to /\ abs(df) <= 1 /\ abs(dr) <= 1
         [] piece \in {"N", "n"} -> df * df + dr * dr = 5
         [] piece \in {"R", "r"} -> straight /\ isLineFree(from, to, occupied)
         [] piece \in {"B", "b"} -> diagonal /\ isLineFree(from, to, occupied)
         [] piece \in {"Q", "q"} -> (straight \/ diagonal) /\ isLineFree(from, to, occupied)
         [] piece = "P" -> dr = 1 /\ abs(df) = 1
         [] OTHER -> dr = -1 /\ abs(df) = 1

\* MoveGenerator::pieceAttackMask of the square of a piece
pieceAttackMask(position, pieceNo) ==
    {to \in RevSquares :
       attacks(position.list[pieceNo], position.squares[pieceNo], to,
               getAllPiecesBB(position))}

\* the king of a colour stands on a square a piece of the other colour attacks
isInCheck(position, white) ==
    \E k \in piecesOf(position, ~white) :
        attacks(position.list[k], position.squares[k],
                position.squares[IF white THEN 1 ELSE 2], getAllPiecesBB(position))

\* a position of the bitbase: the pieces on different squares, no pawn on
\* the first or last rank, the side not to move not in check
isLegalRevPosition(position) ==
    /\ \A k, l \in pieceNumbers(position) :
         k # l => position.squares[k] # position.squares[l]
    /\ \A k \in pieceNumbers(position) :
         isPawn(position.list[k]) => rankOf(position.squares[k]) \in 2 .. 7
    /\ ~isInCheck(position, ~position.wtm)

\* BoardAccess::getIndex(wtm, pieceList, move): the position after the piece
\* has gone to the destination
positionAfter(position, pieceNo, destination) ==
    [list |-> position.list,
     squares |-> [position.squares EXCEPT ![pieceNo] = destination],
     wtm |-> ~position.wtm]

\* the move of the piece to the destination is neither a capture nor a
\* promotion and follows the rules of the piece
isQuietDestination(position, pieceNo, destination) ==
    LET piece == position.list[pieceNo]
        square == position.squares[pieceNo]
        occupied == getAllPiecesBB(position)
    IN /\ destination \notin occupied
       /\ CASE piece = "P" ->
                 \/ destination = square + NORTH /\ rankOf(square) < 7
                 \/ /\ destination = square + 2 * NORTH
                    /\ rankOf(square) = 2
                    /\ square + NORTH \notin occupied
            [] piece = "p" ->
                 \/ destination = square - NORTH /\ rankOf(square) > 2
                 \/ /\ destination = square - 2 * NORTH
                    /\ rankOf(square) = 7
                    /\ square - NORTH \notin occupied
            [] OTHER -> attacks(piece, square, destination, occupied)

\* the piece has a legal move to the destination that is neither a capture
\* nor a promotion
hasQuietMove(position, pieceNo, destination) ==
    /\ pieceNo \in piecesOf(position, position.wtm)
    /\ isQuietDestination(position, pieceNo, destination)
    /\ isLegalRevPosition(positionAfter(position, pieceNo, destination))

\* attackBB of computeCandidates: the attack mask of the piece, for a king
\* without the squares the other king attacks
candidateAttackBB(position, pieceNo) ==
    LET attackBB == pieceAttackMask(position, pieceNo)
    IN IF position.list[pieceNo] = "K" THEN attackBB \ pieceAttackMask(position, 2)
       ELSE IF position.list[pieceNo] = "k" THEN attackBB \ pieceAttackMask(position, 1)
       ELSE attackBB

\* faulty variant of whitePawnCandidates: the two squares are taken back from rank 5
whitePawnCandidatesFromRank5(departure) ==
    IF departure >= A3
    THEN {departure - NORTH}
         \cup (IF rankOf(departure) = 5 THEN {departure - 2 * NORTH} ELSE {})
    ELSE {}

\* computeCandidates, WHITE_PAWN
whitePawnCandidates(departure) ==
    IF departure >= A3
    THEN {departure - NORTH}
         \cup (IF rankOf(departure) = 4 THEN {departure - 2 * NORTH} ELSE {})
    ELSE {}

\* computeCandidates, BLACK_PAWN
blackPawnCandidates(departure) ==
    IF departure <= H6
    THEN {departure + NORTH}
         \cup (IF rankOf(departure) = 5 THEN {departure + 2 * NORTH} ELSE {})
    ELSE {}

\* faulty variant of reverseDestinations: the loop ends at the first occupied square
reverseDestinationsUntilOccupied(position, attackBB) ==
    {destination \in attackBB :
       \A lower \in attackBB :
          lower <= destination => lower \notin getAllPiecesBB(position)}

\* computeCandidates, the other pieces: the attacked squares that are not
\* occupied
reverseDestinations(position, attackBB) ==
    {destination \in attackBB : destination \notin getAllPiecesBB(position)}

\* computeCandidates(candidates, position, list, move, verbose): the
\* destinations of the candidates of a piece
computeCandidatesOfPiece(position, pieceNo) ==
    LET piece == position.list[pieceNo]
        departure == position.squares[pieceNo]
    IN (IF piece = "P" THEN whitePawnCandidates(departure) ELSE {})
       \cup (IF piece = "p" THEN blackPawnCandidates(departure) ELSE {})
       \cup (IF ~isPawn(piece)
             THEN reverseDestinations(position, candidateAttackBB(position, pieceNo))
             ELSE {})

\* the loop of computeCandidates(candidates, position, verbose): the pieces
\* of the side that has just moved, the king last
piecesToVisit(position) ==
    LET white == ~position.wtm
        others == {k \in piecesOf(position, white) : k > 2}
        king == IF white THEN 1 ELSE 2
        RECURSIVE inOrder(_)
        inOrder(set) ==
            IF set = {} THEN <<>>
            ELSE LET k == CHOOSE x \in set : \A y \in set : x <= y
                 IN <<k>> \o inOrder(set \ {k})
    IN inOrder(others) \o <<king>>

LegalRevPositions ==
    UNION {{p \in [list : {pieceList},
                   squares : [1 .. Len(pieceList) -> RevSquares],
                   wtm : BOOLEAN] : isLegalRevPosition(p)} : pieceList \in RevPieceLists}

InitRev ==
    /\ revPosition \in LegalRevPositions
    /\ revPc = "loop"
    /\ revPending = piecesToVisit(revPosition)
    /\ revCandidates = {}
    /\ GenOff /\ RecIdle /\ IdxIdle /\ StoIdle /\ RdrIdle /\ IdIdle /\ ClkIdle /\ PkgIdle /\ AspIdle /\ EvalIdle /\ TimIdle /\ MatIdle

\* one turn of the loop: the candidates of the next piece are pushed
CandidatesOfPiece ==
    /\ revPc = "loop"
    /\ revPending # <<>>
    /\ revCandidates' = revCandidates
          \cup {[pieceNo |-> Head(revPending), destination |-> d] :
                  d \in computeCandidatesOfPiece(revPosition, Head(revPending))}
    /\ revPending' = Tail(revPending)
    /\ UNCHANGED <<revPc, revPosition>>
    /\ UNCHANGED notRev

\* the end of the loop
EndOfCandidates ==
    /\ revPc = "loop"
    /\ revPending = <<>>
    /\ revPc' = "done"
    /\ UNCHANGED <<revPosition, revPending, revCandidates>>
    /\ UNCHANGED notRev

NextRev == CandidatesOfPiece \/ EndOfCandidates

SpecRev == InitRev /\ [][NextRev]_vars

(***************************************************************************)
(* Properties of the reverse moves                                         *)
(***************************************************************************)
\* the positions the candidates stand for
CandidatePositions ==
    {positionAfter(revPosition, c.pieceNo, c.destination) : c \in revCandidates}

\* the legal positions with a legal move to the position that is neither a
\* capture nor a promotion: they differ from it in the square of one piece of
\* the side that has just moved
Predecessors(position) ==
    {positionAfter(position, m[1], m[2]) :
       m \in {n \in piecesOf(position, ~position.wtm)
                    \X (RevSquares \ getAllPiecesBB(position)) :
                /\ hasQuietMove(positionAfter(position, n[1], n[2]), n[1],
                                position.squares[n[1]])
                /\ isLegalRevPosition(positionAfter(position, n[1], n[2]))}}

\* C19: every legal position with a legal move to the newly won position
\* that is neither a capture nor a promotion is a candidate.
C19_CandidatesComplete ==
    revPc = "done" => Predecessors(revPosition) \subseteq CandidatePositions

\* a rook that may have come from several squares, among them squares more
\* than one step away, with candidates that are no predecessors
C19_Witness ==
    /\ revPc = "done"
    /\ revPosition.list[3] = "R"
    /\ ~revPosition.wtm
    /\ Cardinality(Predecessors(revPosition)) >= 3
    /\ CandidatePositions \ Predecessors(revPosition) # {}
    /\ \E x \in Predecessors(revPosition) :
         /\ x.squares[3] # revPosition.squares[3]
         /\ ~attacks("K", revPosition.squares[3], x.squares[3], {})

\* the destinations of the candidates of a piece
candidatesOfPiece(pieceNo) ==
    {c.destination : c \in {x \in revCandidates : x.pieceNo = pieceNo}}

\* C20: a pawn of the side that has just moved is taken back one square
\* towards its own side, and also two squares when it stands on rank 4
\* (white) or rank 5 (black); a pawn on rank 2 (white) or rank 7 (black)
\* yields no candidate, and neither does a pawn of the side to move.
C20_ReversePawnMoves ==
    revPc = "done" =>
        \A k \in pieceNumbers(revPosition) :
            LET square == revPosition.squares[k]
            IN /\ (revPosition.list[k] = "P" /\ ~revPosition.wtm) =>
                    candidatesOfPiece(k) =
                       IF rankOf(square) = 2 THEN {}
                       ELSE IF rankOf(square) = 4 THEN {square - NORTH, square - 2 * NORTH}
                       ELSE {square - NORTH}
               /\ (revPosition.list[k] = "p" /\ revPosition.wtm) =>
                    candidatesOfPiece(k) =
                       IF rankOf(square) = 7 THEN {}
                       ELSE IF rankOf(square) = 5 THEN {square + NORTH, square + 2 * NORTH}
                       ELSE {square + NORTH}
               /\ (isPawn(revPosition.list[k])
                   /\ isWhitePiece(revPosition.list[k]) = revPosition.wtm) =>
                    candidatesOfPiece(k) = {}

\* a white pawn on rank 4 has been taken back to rank 3 and to rank 2
C20_Witness ==
    /\ revPc = "done"
    /\ revPosition.list[3] = "P"
    /\ ~revPosition.wtm
    /\ rankOf(revPosition.squares[3]) = 4
    /\ Cardinality(candidatesOfPiece(3)) = 2

\* C35: every candidate takes back one piece of the side that has just moved
\* to a square that is empty in the won position, a king never to a square the
\* other king attacks, and the candidate has the other side to move.
C35_WellFormedReverseMoves ==
    \A c \in revCandidates :
        LET piece == revPosition.list[c.pieceNo]
        IN /\ c.pieceNo \in piecesOf(revPosition, ~revPosition.wtm)
           /\ c.destination # revPosition.squares[c.pieceNo]
           /\ c.destination \notin getAllPiecesBB(revPosition)
           /\ piece = "K" => c.destination \notin pieceAttackMask(revPosition, 2)
           /\ piece = "k" => c.destination \notin pieceAttackMask(revPosition, 1)
           /\ positionAfter(revPosition, c.pieceNo, c.destination).wtm = ~revPosition.wtm

(***************************************************************************)
(* BitbaseGenerator::computeBitbase(PieceList&): the index ranges of the   *)
(* initial sweep, for every size of the bitbase and every thread count     *)
(***************************************************************************)
MaxWorkSize == 12
MaxThreadCount == 5

InitPkg ==
    /\ pkgPc = "loop"
    /\ sizeInBit \in 0 .. MaxWorkSize
    /\ threadCount \in 1 .. MaxThreadCount
    /\ startedThreads = 0
    /\ beginIndex = 0
    /\ ranges = <<>>
    /\ GenOff /\ RecIdle /\ IdxIdle /\ StoIdle /\ RdrIdle /\ IdIdle /\ ClkIdle /\ RevIdle /\ AspIdle /\ EvalIdle /\ TimIdle /\ MatIdle

\* one pass of the loop over _threads: the thread gets getWork(index, package, false)
StartInitialThread ==
    /\ UNCHANGED notPkg
    /\ pkgPc = "loop"
    /\ startedThreads < threadCount
    /\ LET size == package(sizeInBit, threadCount, beginIndex)
       IN /\ ranges' = Append(ranges, {i \in 0 .. (sizeInBit - 1) :
                                          beginIndex <= i /\ i < beginIndex + size})
          /\ beginIndex' = beginIndex + size
    /\ startedThreads' = startedThreads + 1
    /\ UNCHANGED <<pkgPc, sizeInBit, threadCount>>

\* joinThreads() after the loop
JoinInitialThreads ==
    /\ UNCHANGED notPkg
    /\ pkgPc = "loop"
    /\ startedThreads = threadCount
    /\ pkgPc' = "joined"
    /\ UNCHANGED <<sizeInBit, threadCount, startedThreads, beginIndex, ranges>>

NextPkg == StartInitialThread \/ JoinInitialThreads

SpecPkg == InitPkg /\ [][NextPkg]_vars

\* C23: the index ranges handed to the threads of the initial sweep lie inside
\* [0, N), are pairwise disjoint, are the ranges [index, index + package) with
\* 0 <= package, and after the last thread was started their union is [0, N)
C23_InitialRangesPartition ==
    pkgPc # "off" =>
        /\ beginIndex <= sizeInBit
        /\ \A k \in 1 .. Len(ranges) : ranges[k] \subseteq 0 .. (sizeInBit - 1)
        /\ \A k, l \in 1 .. Len(ranges) : k # l => ranges[k] \cap ranges[l] = {}
        /\ UNION {ranges[k] : k \in 1 .. Len(ranges)} = 0 .. (beginIndex - 1)
        /\ pkgPc = "joined" =>
              /\ Len(ranges) = threadCount
              /\ UNION {ranges[k] : k \in 1 .. Len(ranges)} = 0 .. (sizeInBit - 1)

\* all threads are started for a size that is no multiple of the thread count,
\* and the last thread got an empty range
C23_Witness ==
    /\ pkgPc = "joined"
    /\ threadCount >= 3
    /\ sizeInBit % threadCount # 0
    /\ ranges[1] # {}
    /\ ranges[threadCount] = {}

(***************************************************************************)
(* BitbaseGenerator::computeInitialWorkpackage: one index of the work, for *)
(* every index of the bitbase of a piece list                              *)
(***************************************************************************)
\* faulty variant of initialOutcome: an index that is not legal is computed too
initialOutcomeNoIllegal(legal, testIndex, index) ==
    IF legal /\ testIndex # index THEN "exit" ELSE "computed"

\* what the loop body does with an index: state.setIllegal(index), exit(1) or
\* initialComputePosition(index, position, state)
initialOutcome(legal, testIndex, index) ==
    IF legal
    THEN IF testIndex # index THEN "exit" ELSE "computed"
    ELSE "illegal"

InitIni ==
    /\ idxPc = "work"
    /\ idxList \in IdxPieceLists
    /\ idxIndex \in 0 .. (getSizeInBit(idxList) - 1)
    /\ idxPosition = <<>>
    /\ idxDecoded = <<>>
    /\ idxTest = 0
    /\ GenOff /\ RecIdle /\ StoIdle /\ RdrIdle /\ IdIdle /\ ClkIdle /\ RevIdle /\ PkgIdle /\ AspIdle /\ EvalIdle /\ TimIdle /\ MatIdle

\* the body of for (auto index : work)
ComputeInitialIndex ==
    /\ idxPc = "work"
    /\ LET legal == isLegalBitbaseIndex(idxIndex, idxList)
           position == indexToPosition(idxIndex, idxList)
           testIndex == IF legal THEN computeIndex(position, idxList) ELSE 0
       IN /\ idxDecoded' = position
          /\ idxTest' = testIndex
          /\ idxPc' = initialOutcome(legal, testIndex, idxIndex)
    /\ UNCHANGED <<idxList, idxPosition, idxIndex>>
    /\ UNCHANGED notIdx

NextIni == ComputeInitialIndex

SpecIni == InitIni /\ [][NextIni]_vars

\* C24: an index of the work is marked illegal exactly if it does not decode to a
\* legal placement; an index that is computed decodes to a legal placement whose
\* index is the index again, and the generator exits exactly if the decoding is
\* legal and the index of the decoded position is another one
C24_IllegalOrSameIndex ==
    idxPc \in {"illegal", "computed", "exit"} =>
        /\ idxPc = "illegal" <=> ~isLegalBitbaseIndex(idxIndex, idxList)
        /\ idxPc = "illegal" <=> ~idxDecoded.legal
        /\ idxPc = "computed" =>
              /\ isLegalPlacement(getSquares(idxIndex, idxList), idxList)
              /\ computeIndex(idxDecoded, idxList) = idxIndex
              /\ idxTest = idxIndex
        /\ idxPc = "exit" <=> (idxDecoded.legal /\ idxTest # idxIndex)

\* an index of a list with a pawn is computed, and its neighbour is marked illegal
C24_Witness ==
    /\ idxPc = "computed"
    /\ hasPawn(idxList)
    /\ idxIndex > 1
    /\ ~isLegalBitbaseIndex(idxIndex - 2, idxList)

(***************************************************************************)
(* IterativeDeepening::searchOneIteration: the searches of one depth and   *)
(* the aspiration window                                                   *)
(***************************************************************************)
\* the largest depth of an iteration
MaxAspDepth == 6

\* the aspiration window: used from this depth on, first width, number of
\* widenings after which the window is opened
ASPIRATION_DEPTH == 5
INITIAL_DELTA == 16
MAX_WIDENINGS == 3

\* the values of the last iteration the window is put around
PreviousValues == {-120, 0, 120}

\* the values a search with the full window may find for a position the side
\* to move of which has a legal move: a mate in one for either side at most
SearchValues == {1 - MAX_VALUE, -120, -40, -20, 0, 20, 40, 120, MAX_VALUE - 1}

Max(a, b) == IF a > b THEN a ELSE b

\* the window at the start of an iteration
initialWindow(depth, previous) ==
    IF depth >= ASPIRATION_DEPTH
    THEN <<previous - INITIAL_DELTA, previous + INITIAL_DELTA>>
    ELSE <<0 - MAX_VALUE, MAX_VALUE>>

\* the value a search with the window <<a, b>> returns for a position of value v
searchRec(window, v) == Max(window[1], Min(window[2], v))

\* faulty variant of searchWindow: every search is started with the first window
searchWindowOfFirstSearch == IF usedWindow = <<>> THEN <<alpha, beta>> ELSE usedWindow

\* stack.initSearch(board, aspirationWindow.alpha, aspirationWindow.beta, searchDepth)
searchWindow == <<alpha, beta>>

\* faulty variant of widen: the width is kept
widenSameDelta(width) == width

\* the next width of a window that failed
widen(width) == 2 * width

\* faulty variant of publishedAfterLoop: the result is printed inside the loop
publishedEveryAttempt(retry) == Append(aspPublished, aspValue)

\* computingInfo.printSearchResult() follows the do loop
publishedAfterLoop(retry) ==
    IF retry THEN aspPublished ELSE Append(aspPublished, aspValue)

InitAsp ==
    /\ aspPc = "search"
    /\ iterationDepth \in 0 .. MaxAspDepth
    /\ \E previous \in PreviousValues :
         /\ alpha = initialWindow(iterationDepth, previous)[1]
         /\ beta = initialWindow(iterationDepth, previous)[2]
    /\ delta = INITIAL_DELTA
    /\ retryCount = 0
    /\ usedWindow = <<>>
    /\ aspValue = 0
    /\ aspSearched = <<>>
    /\ aspPublished = <<>>
    /\ GenOff /\ RecIdle /\ IdxIdle /\ StoIdle /\ RdrIdle /\ IdIdle /\ ClkIdle /\ RevIdle /\ EvalIdle /\ TimIdle /\ MatIdle
    /\ PkgIdle

\* the body of the do loop: the position is searched with the window; the
\* value of the position may differ from search to search
SearchWithWindow ==
    /\ UNCHANGED notAsp
    /\ aspPc = "search"
    /\ usedWindow' = searchWindow
    /\ \E v \in SearchValues : aspValue' = searchRec(searchWindow, v)
    /\ aspSearched' = Append(aspSearched, iterationDepth)
    /\ aspPc' = "retry"
    /\ UNCHANGED <<iterationDepth, alpha, beta, delta, retryCount, aspPublished>>

\* while (aspirationWindow.retryWithNewWindow(computingInfo)): a value at or
\* beyond a bound of the window widens the window on that side, the third
\* widening opens it, and the search is repeated
RetryWithWindow ==
    /\ UNCHANGED notAsp
    /\ aspPc = "retry"
    /\ IF aspValue <= alpha \/ aspValue >= beta
       THEN /\ retryCount' = retryCount + 1
            /\ delta' = widen(delta)
            /\ IF retryCount + 1 >= MAX_WIDENINGS
               THEN alpha' = 0 - MAX_VALUE /\ beta' = MAX_VALUE
               ELSE IF aspValue <= alpha
                    THEN /\ alpha' = Max(0 - MAX_VALUE, aspValue - widen(delta))
                         /\ beta' = beta
                    ELSE /\ beta' = Min(MAX_VALUE, aspValue + widen(delta))
                         /\ alpha' = alpha
            /\ aspPc' = "search"
       ELSE /\ aspPc' = "done"
            /\ UNCHANGED <<alpha, beta, delta, retryCount>>
    /\ aspPublished' = publishedAfterLoop(aspValue <= alpha \/ aspValue >= beta)
    /\ UNCHANGED <<iterationDepth, usedWindow, aspValue, aspSearched>>

NextAsp == SearchWithWindow \/ RetryWithWindow

\* the loop runs on until its condition fails
SpecAsp == InitAsp /\ [][NextAsp]_vars /\ WF_vars(NextAsp)

\* C30: the loop of an iteration ends; all its searches are made at the depth of
\* the iteration; a search is repeated only after a value at or beyond a bound
\* of its window, with a width twice the last one; after three widenings the
\* window is (-MAX_VALUE, MAX_VALUE), and the value of the last search lies
\* inside the window it was made with
C30_RetryLoopTerminates ==
    /\ <>(aspPc = "done")
    /\ [](/\ \A k \in 1 .. Len(aspSearched) : aspSearched[k] = iterationDepth
          /\ retryCount <= MAX_WIDENINGS
          /\ Len(aspSearched) <= MAX_WIDENINGS + 1
          /\ retryCount >= MAX_WIDENINGS => (alpha = 0 - MAX_VALUE /\ beta = MAX_VALUE)
          /\ aspPc = "done" => (usedWindow[1] < aspValue /\ aspValue < usedWindow[2]))
    /\ [][aspPc' = "search" =>
             /\ aspValue <= alpha \/ aspValue >= beta
             /\ delta' = 2 * delta
             /\ retryCount' = retryCount + 1
             /\ alpha' <= alpha /\ beta' >= beta
             /\ alpha' < alpha \/ beta' > beta]_vars

\* the loop has ended after three widenings and four searches at a depth with
\* an aspiration window
C30_Witness ==
    /\ aspPc = "done"
    /\ iterationDepth >= ASPIRATION_DEPTH
    /\ retryCount = MAX_WIDENINGS
    /\ Len(aspSearched) = MAX_WIDENINGS + 1
    /\ delta = 8 * INITIAL_DELTA

MaxTerm == 2

TermValues == (0 - MaxTerm) .. MaxTerm

\* EvalEndgame::eval(board, evalResult): the value is kept, or replaced by the
\* value of an endgame evaluation
EndgameValues(evalResult) == {evalResult} \cup TermValues

\* Eval::cutValueOnDrawPositions
cutValueOnDrawPositions(board, currentValue) ==
    IF currentValue > 0 /\ ~board.whiteCanMate THEN 0
    ELSE IF currentValue < 0 /\ ~board.blackCanMate THEN 0
    ELSE currentValue

\* Eval::evaluateBoardPosition
evaluateBoardPosition(board) ==
    LET evalResult == board.material + board.pawn
        endGameResult == cutValueOnDrawPositions(board, board.endgame)
    IN IF endGameResult # evalResult
       THEN endGameResult
       ELSE evalResult + board.mobility + board.kingAttack

InitEval ==
    /\ evalPc = "board"
    /\ terms \in {t \in [material : TermValues, pawn : TermValues,
                         endgame : (0 - 2 * MaxTerm) .. (2 * MaxTerm),
                         mobility : TermValues, kingAttack : TermValues,
                         whiteCanMate : BOOLEAN, blackCanMate : BOOLEAN] :
                    t.endgame \in EndgameValues(t.material + t.pawn)}
    /\ evalValue = 0
    /\ GenOff /\ RecIdle /\ IdxIdle /\ StoIdle /\ RdrIdle /\ IdIdle /\ ClkIdle /\ RevIdle /\ TimIdle /\ MatIdle
    /\ PkgIdle /\ AspIdle

EvaluateBoardPosition ==
    /\ UNCHANGED notEval
    /\ evalPc = "board"
    /\ evalValue' = evaluateBoardPosition(terms)
    /\ evalPc' = "done"
    /\ UNCHANGED terms

NextEval == EvaluateBoardPosition

SpecEval == InitEval /\ [][NextEval]_vars

\* C33: the value of a position is at most 0 if white has not enough material
\* to mate and at least 0 if black has not
C33_NoPointsWithoutMatingMaterial ==
    evalPc = "done" =>
        /\ ~terms.whiteCanMate => evalValue <= 0
        /\ ~terms.blackCanMate => evalValue >= 0


(***************************************************************************)
(* ClockSetting: the time spent for a calculation.  The 64 bit members are *)
(* words of TimeBits bits, signed or unsigned as declared.                 *)
(***************************************************************************)
\* bits of a word (64 in the program)
TimeBits == 6

WordRange == power(2, TimeBits)

\* largest time to think that is set, and the latest system time
MaxTimeToThink == 6

MaxSystemTime == 12

\* the conversion of a value to uint64_t
toUnsigned(value) == value % WordRange

\* the conversion of a value to int64_t
toSigned(value) ==
    IF toUnsigned(value) >= WordRange \div 2 THEN toUnsigned(value) - WordRange
    ELSE toUnsigned(value)

\* ClockSetting::getTimeToThinkForAllMovesInMilliseconds: the signed member is
\* returned as uint64_t
getTimeToThinkForAllMovesInMilliseconds(member) == toUnsigned(member)

\* int64_t timeSpent = getSystemTimeInMilliseconds() - _calculationStartTime
timeSpentSince(now, start) == toSigned(toUnsigned(now - start))

\* ClockSetting::storeTimeSpent: the member after the call
storeTimeSpent(member, now, start) == member - timeSpentSince(now, start)

\* the clock setting after a time to think has been set
InitTime ==
    /\ timeToThinkForAllMoves \in 0 .. MaxTimeToThink
    /\ calculationStartTime = 0
    /\ systemTime \in 0 .. 1
    /\ timeBefore = 0
    /\ timCall = "set"
    /\ GenOff /\ RecIdle /\ IdxIdle /\ StoIdle /\ RdrIdle /\ IdIdle /\ ClkIdle /\ RevIdle /\ PkgIdle /\ AspIdle /\ EvalIdle /\ MatIdle

\* time passes
TimePasses ==
    /\ \E elapsed \in 1 .. 3 :
         /\ systemTime + elapsed <= MaxSystemTime
         /\ systemTime' = systemTime + elapsed
    /\ timCall' = "none"
    /\ UNCHANGED <<timeToThinkForAllMoves, calculationStartTime, timeBefore>>
    /\ UNCHANGED notTim

\* ClockSetting::storeCalculationStartTime
StoreCalculationStartTime ==
    /\ calculationStartTime' = systemTime
    /\ timCall' = "storeCalculationStartTime"
    /\ UNCHANGED <<timeToThinkForAllMoves, systemTime, timeBefore>>
    /\ UNCHANGED notTim

\* ClockSetting::storeTimeSpent, as long as the signed member does not overflow
StoreTimeSpent ==
    /\ storeTimeSpent(timeToThinkForAllMoves, systemTime, calculationStartTime)
          >= 0 - WordRange \div 2
    /\ timeBefore' = getTimeToThinkForAllMovesInMilliseconds(timeToThinkForAllMoves)
    /\ timeToThinkForAllMoves' =
          storeTimeSpent(timeToThinkForAllMoves, systemTime, calculationStartTime)
    /\ timCall' = "storeTimeSpent"
    /\ UNCHANGED <<calculationStartTime, systemTime>>
    /\ UNCHANGED notTim

NextTime == TimePasses \/ StoreCalculationStartTime \/ StoreTimeSpent

SpecTime == InitTime /\ [][NextTime]_vars

\* C38: the remaining time getTimeToThinkForAllMovesInMilliseconds returns after
\* storeTimeSpent is not greater than the one it returned before, also when
\* more time was spent than was left.
C38_TimeNeverIncreases ==
    timCall = "storeTimeSpent" =>
        getTimeToThinkForAllMovesInMilliseconds(timeToThinkForAllMoves) <= timeBefore


(***************************************************************************)
(* MaterialBalance: the material value kept with every piece that is put   *)
(* on the board or taken from it.  An EvalValue is a pair of a midgame and *)
(* an endgame value.                                                       *)
(***************************************************************************)
PAWN_VALUE_MG == 80
PAWN_VALUE_EG == 95
KNIGHT_VALUE_MG == 360
KNIGHT_VALUE_EG == 325
BISHOP_VALUE_MG == 360
BISHOP_VALUE_EG == 330
ROOK_VALUE_MG == 550
ROOK_VALUE_EG == 550
QUEEN_VALUE_MG == 975
QUEEN_VALUE_EG == 1025

\* calls made to a material balance
MaxCalls == 4

NO_PIECE == "none"

MaterialPieces == Pieces \cup {"K", "k", NO_PIECE}

\* EvalValue(midgame, endgame) and its operators
EvalValue(midgame, endgame) == <<midgame, endgame>>

plus(a, b) == <<a[1] + b[1], a[2] + b[2]>>

minus(a, b) == <<a[1] - b[1], a[2] - b[2]>>

\* MaterialBalance::MaterialBalance: the table of the piece values
pieceValues ==
    [piece \in MaterialPieces |->
       CASE piece = "P" -> EvalValue(PAWN_VALUE_MG, PAWN_VALUE_EG)
         [] piece = "p" -> EvalValue(0 - PAWN_VALUE_MG, 0 - PAWN_VALUE_EG)
         [] piece = "N" -> EvalValue(KNIGHT_VALUE_MG, KNIGHT_VALUE_EG)
         [] piece = "n" -> EvalValue(0 - KNIGHT_VALUE_MG, 0 - KNIGHT_VALUE_EG)
         [] piece = "B" -> EvalValue(BISHOP_VALUE_MG, BISHOP_VALUE_EG)
         [] piece = "b" -> EvalValue(0 - BISHOP_VALUE_MG, 0 - BISHOP_VALUE_EG)
         [] piece = "R" -> EvalValue(ROOK_VALUE_MG, ROOK_VALUE_EG)
         [] piece = "r" -> EvalValue(0 - ROOK_VALUE_MG, 0 - ROOK_VALUE_EG)
         [] piece = "Q" -> EvalValue(QUEEN_VALUE_MG, QUEEN_VALUE_EG)
         [] piece = "q" -> EvalValue(0 - QUEEN_VALUE_MG, 0 - QUEEN_VALUE_EG)
         [] piece = "K" -> EvalValue(MAX_VALUE, MAX_VALUE)
         [] piece = "k" -> EvalValue(0 - MAX_VALUE, 0 - MAX_VALUE)
         [] OTHER -> EvalValue(0, 0)]

\* MaterialBalance::clear
materialClear == EvalValue(0, 0)

\* MaterialBalance::addPiece
materialAddPiece(value, piece) == plus(value, pieceValues[piece])

\* faulty variant of materialRemovePiece: the value of the piece is added
materialRemovePieceAdded(value, piece) == plus(value, pieceValues[piece])

\* MaterialBalance::removePiece
materialRemovePiece(value, piece) == minus(value, pieceValues[piece])

\* what _materialValue may hold before the first clear: the constructor does
\* not assign it
UnclearedValues == {EvalValue(0, 0), EvalValue(7, -7)}

InitMat ==
    /\ materialValue \in UnclearedValues
    /\ matTrace = <<>>
    /\ GenOff /\ RecIdle /\ IdxIdle /\ StoIdle /\ RdrIdle /\ IdIdle /\ ClkIdle /\ RevIdle /\ PkgIdle /\ AspIdle /\ EvalIdle /\ TimIdle

\* the call is written down with the value before it and the value it leaves
called(op, piece, value) ==
    Append(matTrace, [op |-> op, piece |-> piece, before |-> materialValue,
                      value |-> value])

Clear ==
    /\ Len(matTrace) < MaxCalls
    /\ materialValue' = materialClear
    /\ matTrace' = called("clear", NO_PIECE, materialClear)
    /\ UNCHANGED notMat

AddPiece ==
    /\ Len(matTrace) < MaxCalls
    /\ \E piece \in MaterialPieces :
         /\ materialValue' = materialAddPiece(materialValue, piece)
         /\ matTrace' = called("addPiece", piece, materialAddPiece(materialValue, piece))
    /\ UNCHANGED notMat

RemovePiece ==
    /\ Len(matTrace) < MaxCalls
    /\ \E piece \in MaterialPieces :
         /\ materialValue' = materialRemovePiece(materialValue, piece)
         /\ matTrace' = called("removePiece", piece,
                               materialRemovePiece(materialValue, piece))
    /\ UNCHANGED notMat

NextMat == Clear \/ AddPiece \/ RemovePiece

SpecMat == InitMat /\ [][NextMat]_vars

(***************************************************************************)
(* Properties of the material balance                                      *)
(***************************************************************************)
\* the number of the last clear in the trace, 0 if there is none
lastClear ==
    IF \E k \in 1 .. Len(matTrace) : matTrace[k].op = "clear"
    THEN CHOOSE k \in 1 .. Len(matTrace) :
            /\ matTrace[k].op = "clear"
            /\ \A l \in (k + 1) .. Len(matTrace) : matTrace[l].op # "clear"
    ELSE 0

\* how often a piece was added since the last clear, less how often it was
\* removed
onBoard(piece) ==
    Cardinality({k \in (lastClear + 1) .. Len(matTrace) :
                   matTrace[k].op = "addPiece" /\ matTrace[k].piece = piece})
    - Cardinality({k \in (lastClear + 1) .. Len(matTrace) :
                     matTrace[k].op = "removePiece" /\ matTrace[k].piece = piece})

\* the material counted anew: for every kind of piece the white pieces less
\* the black ones, times the value of the kind
kindValue(white, black, midgame, endgame) ==
    EvalValue((onBoard(white) - onBoard(black)) * midgame,
              (onBoard(white) - onBoard(black)) * endgame)

recomputedMaterial ==
    plus(kindValue("P", "p", PAWN_VALUE_MG, PAWN_VALUE_EG),
    plus(kindValue("N", "n", KNIGHT_VALUE_MG, KNIGHT_VALUE_EG),
    plus(kindValue("B", "b", BISHOP_VALUE_MG, BISHOP_VALUE_EG),
    plus(kindValue("R", "r", ROOK_VALUE_MG, ROOK_VALUE_EG),
    plus(kindValue("Q", "q", QUEEN_VALUE_MG, QUEEN_VALUE_EG),
         kindValue("K", "k", MAX_VALUE, MAX_VALUE))))))

sameForBothSides ==
    /\ onBoard("P") = onBoard("p") /\ onBoard("N") = onBoard("n")
    /\ onBoard("B") = onBoard("b") /\ onBoard("R") = onBoard("r")
    /\ onBoard("Q") = onBoard("q") /\ onBoard("K") = onBoard("k")

\* C39: after a clear and any calls of addPiece and removePiece the material
\* value is the sum of the values of the pieces added since less those of the
\* pieces removed; removePiece(p) after addPiece(p) gives back the value
\* before the two calls; the same pieces for white and black give 0.
C39_IncrementalEqualsRecomputed ==
    /\ lastClear > 0 => materialValue = recomputedMaterial
    /\ \A k \in 2 .. Len(matTrace) :
          (/\ matTrace[k - 1].op = "addPiece"
           /\ matTrace[k].op = "removePiece"
           /\ matTrace[k].piece = matTrace[k - 1].piece)
          => matTrace[k].value = matTrace[k - 1].before
    /\ (lastClear > 0 /\ sameForBothSides) => materialValue = EvalValue(0, 0)

\* after a clear a white queen and a black rook were added and the queen was
\* removed again: the value is that of the black rook
C39_Witness ==
    /\ Len(matTrace) = 4
    /\ matTrace[1].op = "clear"
    /\ matTrace[2].op = "addPiece" /\ matTrace[2].piece = "Q"
    /\ matTrace[3].op = "addPiece" /\ matTrace[3].piece = "r"
    /\ matTrace[4].op = "removePiece" /\ matTrace[4].piece = "Q"
    /\ materialValue = EvalValue(0 - ROOK_VALUE_MG, 0 - ROOK_VALUE_EG)

====
